---- MODULE Spec2Model ----
(***************************************************************************)
(* A model of fastrec's pipeline orchestration (src/fastrec.py) and of     *)
(* subshot's screenshot-capture engine (src/subshot.py).                   *)
(*                                                                         *)
(* Strings are sequences of one-character strings.  Exception messages are *)
(* sequences of tokens (see Exc and Contains).                             *)
(***************************************************************************)
EXTENDS Integers, Sequences, FiniteSets, TLC

VARIABLES
    \* ---- subshot.py: process_subdomains (the Batch Snapshot Driver)
    lines,          \* the lines of the input file given to load_list
    subdomains,     \* the list load_list returned
    timeoutSecs,    \* process_subdomains' timeout parameter (seconds)
    pc,             \* position of the driver
    i,              \* enumerate index of the entry being processed
    success_count,
    fail_count,
    console,        \* what the driver printed, in order
    calls,          \* the calls of take_screenshot the driver made, in order
    \* ---- subshot.py: take_screenshot (the Snapshot Capturer)
    url,
    output_path,
    retries,
    timeout,        \* milliseconds
    attempt,
    last_error,
    tpc,            \* position inside take_screenshot
    raised,         \* the exception in flight to the except clauses
    ret,            \* the tuple take_screenshot returned
    session,        \* the attempts whose browser session is open
    failures,       \* attempts of the current call that raised
    timeouts,       \* attempts of the current call that raised PlaywrightTimeout
    fs,             \* the output directory: filename -> file
    fs0,            \* the output directory when the current call started
    \* ---- fastrec.py: run_parallel_commands (the Parallel Stage Runner)
    mpc,            \* position of the calling thread
    wpc,            \* position of each worker thread
    proc,           \* state of each external process
    dur,            \* time units each command runs
    left,           \* time units each running command still runs
    emitted,        \* lines each command has written to its pipe
    pipe,           \* lines written and not yet read by the worker
    results,        \* the dict of completion flags
    out,            \* what the workers and the caller printed, in order
    clock,          \* time units elapsed since the call
    overlap,        \* have both processes been running at the same time
    \* ---- fastrec.py: run_recon (the Pipeline Sequencer)
    rpc,            \* position of the sequencer
    stagelog,       \* the stages entered, in order
    cfg,            \* module constants and the tools found on this machine
    ws,             \* the workspace: artifact name -> file
    shots,          \* the screenshots directory of the workspace
    cmd,            \* the command run_piped_command / run_subshot is running
    cpc,            \* position inside run_piped_command / run_subshot
    cproc,          \* state of that command's process
    cret,           \* what the last call of a runner returned
    orphans,        \* commands still running whose runner has returned
    retd,           \* commands whose runner has returned
    attempts,       \* Popen calls made for each command
    faults,         \* exceptions run_piped_command and run_subshot have met
    rlog,           \* warnings and skip notices the sequencer printed
    summary,        \* the results dict of the Run Summary
    notified,       \* calls of send_telegram_notification
    sent,           \* what send_telegram_notification returned
    \* ---- fastrec.py: run_command (the Process Runner)
    xpc,            \* position inside run_command
    xhasfile,       \* was an output_file given
    xfh,            \* file_handle: none, open or closed
    xfile,          \* the output file on disk
    xfile0,         \* the output file before the call
    xproc,          \* state of the process
    xemitted,       \* the lines the process has written to its pipe, in order
    xread,          \* how many of them the loop has read
    xret,           \* what run_command returned
    xexc,           \* did the except clause run
    \* ---- subshot.py: main (the Batch Snapshot CLI)
    apc,            \* position of main
    args,           \* the parsed command line
    env,            \* what the machine holds: Playwright, the input file
    mode,           \* the branch main took
    prompted,       \* has input() been called
    dircreated,     \* has an output directory been created
    captured,       \* has process_subdomains been called
    exitcode,       \* status the process exited with, -1 while it runs
    \* ---- fastrec.py: main and the head of run_recon
    fpc,            \* position of fastrec's main thread
    fenv,           \* the machine and the answers the user will type
    fdone,          \* what the run has done: prompts, directory, stages
    fexit,          \* status fastrec exited with, -1 while it runs
    \* ---- both tools: the outermost try of __main__
    inflight,       \* the exception travelling up to the outermost try
    hit,            \* what has struck the run: interrupts, exceptions
    \* ---- inputs and results of the functions checked on their own
    tin,
    tout

batchVars == <<lines, subdomains, timeoutSecs, pc, i, success_count,
               fail_count, console, calls>>
captureVars == <<url, output_path, retries, timeout, attempt, last_error,
                 tpc, raised, ret, session, failures, timeouts, fs, fs0>>
parallelVars == <<mpc, wpc, proc, dur, left, emitted, pipe, results, out,
                  clock, overlap>>
reconVars == <<rpc, stagelog, cfg, ws, shots, cmd, cpc, cproc, cret, orphans,
               retd, attempts, faults, rlog, summary, notified, sent>>
commandVars == <<xpc, xhasfile, xfh, xfile, xfile0, xproc, xemitted, xread,
                 xret, xexc>>
cliVars == <<apc, args, env, mode, prompted, dircreated, captured, exitcode>>
mainVars == <<fpc, fenv, fdone, fexit>>
exitVars == <<inflight, hit>>
textVars == <<tin, tout>>
moreVars == <<mainVars, exitVars, textVars>>
toolVars == <<commandVars, cliVars, moreVars>>
restVars == <<reconVars, toolVars>>
vars == <<batchVars, captureVars, parallelVars, restVars>>

(***************************************************************************)
(* Bounds of the model.                                                    *)
(***************************************************************************)
MaxLines == 2       \* lines in the input file
MaxRetries == 3     \* largest `retries` a direct call is given
MaxDur == 2         \* longest command, in time units
MaxOut == 1         \* output lines one command prints
MaxEmit == 2        \* output lines the command given to run_command prints
MaxPieces == 3      \* pieces an input string of the text functions is made of
MaxUrls == 3        \* lines in a raw URL list given to the merge on its own
MaxFaults == 1      \* exceptions run_piped_command and run_subshot meet in a run

Min(a, b) == IF a < b THEN a ELSE b
Max(a, b) == IF a > b THEN a ELSE b

(***************************************************************************)
(* Python string primitives.                                               *)
(***************************************************************************)
\* str.strip() with no argument strips these (of the characters used here).
Whitespace == {" ", "\t", "\n", "\r", "\f"}

StartsWith(s, p) ==
    /\ Len(s) >= Len(p)
    /\ SubSeq(s, 1, Len(p)) = p

Drop(s, n) == SubSeq(s, n + 1, Len(s))

\* s.replace(p, ''): every non-overlapping occurrence, left to right.
RECURSIVE RemoveAll(_, _)
RemoveAll(s, p) ==
    IF Len(s) < Len(p) \/ Len(p) = 0 THEN s
    ELSE IF StartsWith(s, p) THEN RemoveAll(Drop(s, Len(p)), p)
    ELSE <<Head(s)>> \o RemoveAll(Tail(s), p)

RECURSIVE LStrip(_, _)
LStrip(s, cs) ==
    IF s # <<>> /\ Head(s) \in cs THEN LStrip(Tail(s), cs) ELSE s

RECURSIVE RStrip(_, _)
RStrip(s, cs) ==
    IF s # <<>> /\ s[Len(s)] \in cs THEN RStrip(SubSeq(s, 1, Len(s) - 1), cs)
    ELSE s

Strip(s, cs) == RStrip(LStrip(s, cs), cs)

HttpsPrefix == <<"h", "t", "t", "p", "s", ":", "/", "/">>
HttpPrefix == <<"h", "t", "t", "p", ":", "/", "/">>

\* The character class without the backslash.
InvalidCharsNoBackslash ==
    {"<", ">", ":", "\"", "/", "|", "?", "*"} \cup Whitespace

\* The character class of the re.sub in sanitize_filename.
InvalidChars == {"<", ">", ":", "\"", "/", "\\", "|", "?", "*"} \cup Whitespace

\* The same three steps with the strip before the substitution.
sanitize_filename_strips_first(domain) ==
    LET clean1 == RemoveAll(RemoveAll(domain, HttpsPrefix), HttpPrefix)
        clean2 == Strip(clean1, {".", "-"})
    IN  [k \in 1..Len(clean2) |->
           IF clean2[k] \in InvalidChars THEN "-" ELSE clean2[k]]

sanitize_filename(domain) ==
    LET clean1 == RemoveAll(RemoveAll(domain, HttpsPrefix), HttpPrefix)
        clean2 == [k \in 1..Len(clean1) |->
                     IF clean1[k] \in InvalidChars THEN "-" ELSE clean1[k]]
    IN  Strip(clean2, {".", "-"})

\* normalize_url without the strip.
normalize_url_keeps_blanks(subdomain) ==
    IF ~(StartsWith(subdomain, HttpPrefix) \/ StartsWith(subdomain, HttpsPrefix))
    THEN HttpsPrefix \o subdomain
    ELSE subdomain

normalize_url(subdomain) ==
    LET s == Strip(subdomain, Whitespace)
    IN  IF ~(StartsWith(s, HttpPrefix) \/ StartsWith(s, HttpsPrefix))
        THEN HttpsPrefix \o s
        ELSE s

\* load_list without its filter: blank lines are kept as empty entries.
load_list_keeps_blank(ls) == [k \in 1..Len(ls) |-> Strip(ls[k], Whitespace)]

\* [line.strip() for line in f if line.strip()]
RECURSIVE load_list(_)
load_list(ls) ==
    IF ls = <<>> THEN <<>>
    ELSE LET s == Strip(Head(ls), Whitespace)
         IN  IF s # <<>> THEN <<s>> \o load_list(Tail(ls))
             ELSE load_list(Tail(ls))

PngSuffix == <<".", "p", "n", "g">>

(***************************************************************************)
(* Formatting of numbers in f-strings.                                     *)
(***************************************************************************)
Digit(d) == <<"0", "1", "2", "3", "4", "5", "6", "7", "8", "9">>[d + 1]

\* str(n) of an int n >= 0.
RECURSIVE IntStr(_)
IntStr(n) ==
    IF n < 10 THEN <<Digit(n)>> ELSE IntStr(n \div 10) \o <<Digit(n % 10)>>

\* str(ms / 1000) for an int ms >= 0: true division gives a float, and a
\* float prints with a fractional part, trailing zeros dropped down to one
\* digit (30000 / 1000 prints as 30.0, 1500 / 1000 as 1.5).
FloatStrOfMillis(ms) ==
    LET whole == ms \div 1000
        frac == ms % 1000
        d3 == <<Digit(frac \div 100), Digit((frac \div 10) % 10), Digit(frac % 10)>>
        fracStr == IF frac % 1000 = 0 THEN <<"0">>
                   ELSE IF frac % 100 = 0 THEN SubSeq(d3, 1, 1)
                   ELSE IF frac % 10 = 0 THEN SubSeq(d3, 1, 2)
                   ELSE d3
    IN  IntStr(whole) \o <<".">> \o fracStr

(***************************************************************************)
(* Exceptions.  A message is a sequence of tokens: the substrings that the *)
(* except clause looks for are one token each, and every other character   *)
(* is the one-character token "x".                                         *)
(***************************************************************************)
NNR == "net::ERR_NAME_NOT_RESOLVED"
REF == "net::ERR_CONNECTION_REFUSED"
CTO == "net::ERR_CONNECTION_TIMED_OUT"

Filler(n) == [k \in 1..n |-> "x"]

Exc(type, msg) == [type |-> type, msg |-> msg]
NoExc == Exc("none", <<>>)

\* str.lower() of a message, token by token.
LowerToken(t) ==
    CASE t = "Certificate" -> "certificate"
      [] t = "SSL" -> "ssl"
      [] t = NNR -> "net::err_name_not_resolved"
      [] t = REF -> "net::err_connection_refused"
      [] t = CTO -> "net::err_connection_timed_out"
      [] OTHER -> t

Lower(msg) == [k \in 1..Len(msg) |-> LowerToken(msg[k])]

\* `tok in msg`
Contains(msg, tok) == \E k \in 1..Len(msg) : msg[k] = tok

None == [some |-> FALSE, text |-> <<>>]
Some(text) == [some |-> TRUE, text |-> text]

TruncLen == 100

\* f"Timeout after {timeout/1000}s"
TimeoutReason(ms) == <<"Timeout after ">> \o FloatStrOfMillis(ms) \o <<"s">>

\* The except clauses with "Connection refused" tested before the DNS failure.
ClassifyRefusedFirst(e, ms) ==
    IF e.type = "PlaywrightTimeout" THEN TimeoutReason(ms)
    ELSE LET error_str == e.msg
         IN  IF Contains(error_str, REF) THEN <<"Connection refused">>
             ELSE IF Contains(error_str, NNR) THEN <<"DNS resolution failed">>
             ELSE IF Contains(error_str, CTO) THEN <<"Connection timed out">>
             ELSE IF Contains(error_str, "SSL")
                     \/ Contains(Lower(error_str), "certificate")
                  THEN <<"SSL/Certificate error">>
             ELSE SubSeq(error_str, 1, Min(Len(error_str), TruncLen))

\* The except clauses of take_screenshot: the value assigned to last_error.
Classify(e, ms) ==
    IF e.type = "PlaywrightTimeout" THEN TimeoutReason(ms)
    ELSE LET error_str == e.msg
         IN  IF Contains(error_str, NNR) THEN <<"DNS resolution failed">>
             ELSE IF Contains(error_str, REF) THEN <<"Connection refused">>
             ELSE IF Contains(error_str, CTO) THEN <<"Connection timed out">>
             ELSE IF Contains(error_str, "SSL")
                     \/ Contains(Lower(error_str), "certificate")
                  THEN <<"SSL/Certificate error">>
             ELSE SubSeq(error_str, 1, Min(Len(error_str), TruncLen))

(***************************************************************************)
(* What the browser automation layer can do at each step of an attempt.    *)
(* Playwright's messages carry the call log, which holds the URL, so the   *)
(* text of one error can hold several of the substrings looked for.        *)
(***************************************************************************)
\* A call made by the batch driver is given a few of the errors, a call of
\* take_screenshot on its own every one of them.
Direct == pc = "idle"

TimeoutErrors ==
    IF Direct
    THEN { Exc("PlaywrightTimeout", <<"x">>),
           Exc("PlaywrightTimeout", <<"x", "SSL", NNR>>) }
    ELSE { Exc("PlaywrightTimeout", <<"x">>) }

LaunchErrors == { Exc("Exception", Filler(3)) }

GotoErrors ==
    TimeoutErrors \cup
    { Exc("Exception", m) : m \in
        IF Direct
        THEN { <<NNR, "x">>, <<REF>>, <<"x", CTO>>, <<"SSL">>,
               <<"x", "Certificate">>, <<"certificate">>, <<REF, NNR>>,
               <<CTO, REF>>, <<"SSL", CTO>>, <<"Certificate", NNR>>,
               <<"x", "ssl">> }
        ELSE { <<NNR, "x">> } }

\* page.screenshot raised and wrote nothing to the path.
ScreenshotErrors ==
    TimeoutErrors \cup
    (IF Direct THEN { Exc("Exception", Filler(TruncLen + 1)) } ELSE {})

\* page.screenshot raised while writing the image to the path.
WriteErrors == { Exc("Exception", Filler(IF Direct THEN TruncLen ELSE 3)) }

CloseErrors == { Exc("Exception", IF Direct THEN <<>> ELSE Filler(3)) }

(***************************************************************************)
(* The output directory.                                                   *)
(***************************************************************************)
File(kind, u) == [kind |-> kind, url |-> u]

WriteFile(dir, path, file) ==
    [f \in DOMAIN dir \cup {path} |-> IF f = path THEN file ELSE dir[f]]

EmptyDir == [f \in {} |-> File("complete", <<>>)]

Exists(dir, path) == path \in DOMAIN dir

(***************************************************************************)
(* take_screenshot(url, output_path, retries, timeout)                     *)
(***************************************************************************)
Ret(done, success, error) == [done |-> done, success |-> success, error |-> error]
NoRet == Ret(FALSE, FALSE, None)

\* Entry: lines 260-261.
TsEnter(u, path, r, ms) ==
    /\ url' = u
    /\ output_path' = path
    /\ retries' = r
    /\ timeout' = ms
    /\ attempt' = 0
    /\ last_error' = None
    /\ tpc' = "while"
    /\ raised' = NoExc
    /\ ret' = NoRet
    /\ session' = {}
    /\ failures' = 0
    /\ timeouts' = 0
    /\ fs0' = fs
    /\ UNCHANGED fs

\* The caller has the returned tuple: the frame of the call is gone.
TsLeave ==
    /\ url' = <<>>
    /\ output_path' = <<>>
    /\ retries' = 0
    /\ timeout' = 0
    /\ attempt' = 0
    /\ last_error' = None
    /\ tpc' = "idle"
    /\ raised' = NoExc
    /\ ret' = NoRet
    /\ session' = {}
    /\ failures' = 0
    /\ timeouts' = 0
    /\ fs0' = EmptyDir
    /\ UNCHANGED fs

\* An exception that reaches the except clauses with the session left open.
RaiseLeavesSession(e) ==
    /\ raised' = e
    /\ UNCHANGED session
    /\ tpc' = "except"

\* An exception leaves the `with sync_playwright()` block, which ends the
\* session, and reaches the except clauses.
Raise(e) ==
    /\ raised' = e
    /\ session' = session \ {attempt}
    /\ tpc' = "except"

\* The loop test written `attempt <= retries`.
TsWhileOffByOne ==
    /\ tpc = "while"
    /\ IF attempt <= retries
       THEN /\ attempt' = attempt + 1
            /\ tpc' = "launch"
            /\ UNCHANGED ret
       ELSE /\ ret' = Ret(TRUE, FALSE, last_error)
            /\ tpc' = "returned"
            /\ UNCHANGED attempt
    /\ UNCHANGED <<url, output_path, retries, timeout, last_error, raised,
                   session, failures, timeouts, fs, fs0>>
    /\ UNCHANGED <<batchVars, parallelVars, restVars>>

\* while attempt < retries: attempt += 1 (lines 263-264), or the loop ends
\* and line 306 returns.
TsWhile ==
    /\ tpc = "while"
    /\ IF attempt < retries
       THEN /\ attempt' = attempt + 1
            /\ tpc' = "launch"
            /\ UNCHANGED ret
       ELSE /\ ret' = Ret(TRUE, FALSE, last_error)
            /\ tpc' = "returned"
            /\ UNCHANGED attempt
    /\ UNCHANGED <<url, output_path, retries, timeout, last_error, raised,
                   session, failures, timeouts, fs, fs0>>
    /\ UNCHANGED <<batchVars, parallelVars, restVars>>

\* sync_playwright(), chromium.launch, new_context, new_page (lines 266-273).
TsLaunch ==
    /\ tpc = "launch"
    /\ \/ /\ session' = session \cup {attempt}
          /\ tpc' = "goto"
          /\ UNCHANGED raised
       \/ \E e \in LaunchErrors : Raise(e)
    /\ UNCHANGED <<url, output_path, retries, timeout, attempt, last_error,
                   ret, failures, timeouts, fs, fs0>>
    /\ UNCHANGED <<batchVars, parallelVars, restVars>>

\* page.set_default_timeout, page.goto (lines 276-277).
TsGoto ==
    /\ tpc = "goto"
    /\ \/ /\ tpc' = "screenshot"
          /\ UNCHANGED <<raised, session>>
       \/ \E e \in GotoErrors : Raise(e)
    /\ UNCHANGED <<url, output_path, retries, timeout, attempt, last_error,
                   ret, failures, timeouts, fs, fs0>>
    /\ UNCHANGED <<batchVars, parallelVars, restVars>>

\* page.screenshot(path=output_path) (line 280).
TsScreenshot ==
    /\ tpc = "screenshot"
    /\ \/ /\ fs' = WriteFile(fs, output_path, File("complete", url))
          /\ tpc' = "close"
          /\ UNCHANGED <<raised, session>>
       \/ /\ \E e \in ScreenshotErrors : Raise(e)
          /\ UNCHANGED fs
       \/ /\ \E e \in WriteErrors : Raise(e)
          /\ fs' = WriteFile(fs, output_path, File("partial", url))
    /\ UNCHANGED <<url, output_path, retries, timeout, attempt, last_error,
                   ret, failures, timeouts, fs0>>
    /\ UNCHANGED <<batchVars, parallelVars, restVars>>

\* browser.close(), leaving the with block, return (True, None)
\* (lines 283-285).
TsClose ==
    /\ tpc = "close"
    /\ \/ /\ session' = session \ {attempt}
          /\ ret' = Ret(TRUE, TRUE, None)
          /\ tpc' = "returned"
          /\ UNCHANGED raised
       \/ /\ \E e \in CloseErrors : Raise(e)
          /\ UNCHANGED ret
    /\ UNCHANGED <<url, output_path, retries, timeout, attempt, last_error,
                   failures, timeouts, fs, fs0>>
    /\ UNCHANGED <<batchVars, parallelVars, restVars>>

\* The except clauses and the end of the loop body (lines 287-304).
TsExcept ==
    /\ tpc = "except"
    /\ last_error' = Some(Classify(raised, timeout))
    /\ failures' = failures + 1
    /\ timeouts' = timeouts + (IF raised.type = "PlaywrightTimeout" THEN 1 ELSE 0)
    /\ tpc' = "while"
    /\ UNCHANGED <<url, output_path, retries, timeout, attempt, raised, ret,
                   session, fs, fs0>>
    /\ UNCHANGED <<batchVars, parallelVars, restVars>>

take_screenshot ==
    \/ TsWhile
    \/ TsLaunch
    \/ TsGoto
    \/ TsScreenshot
    \/ TsClose
    \/ TsExcept

(***************************************************************************)
(* process_subdomains(subdomains, output_dir, timeout), called as          *)
(* run_cli_mode and run_interactive_mode call it: on what load_list read.  *)
(***************************************************************************)
BatchRetries == 2

Line(kind, idx, n, text) == [kind |-> kind, i |-> idx, n |-> n, text |-> text]

\* str(error) in f"FAIL ({error})"
ErrorStr(error) == IF error.some THEN error.text ELSE <<"None">>

\* load_list, then lines 321-322.
PsLoad ==
    /\ pc = "start"
    /\ subdomains' = load_list(lines)
    /\ success_count' = 0
    /\ fail_count' = 0
    /\ i' = 0
    /\ pc' = "for"
    /\ UNCHANGED <<lines, timeoutSecs, console, calls>>
    /\ UNCHANGED <<captureVars, parallelVars, restVars>>

\* The progress line numbered from zero.
PsIterateZeroBased ==
    /\ pc = "for"
    /\ i < Len(subdomains)
    /\ LET subdomain == subdomains[i + 1]
           u == normalize_url(subdomain)
           filename == sanitize_filename(subdomain) \o PngSuffix
       IN  /\ i' = i + 1
           /\ console' = Append(console,
                                Line("progress", i, Len(subdomains), subdomain))
           /\ calls' = Append(calls, [target |-> subdomain, url |-> u,
                                      path |-> filename])
           /\ TsEnter(u, filename, BatchRetries, timeoutSecs * 1000)
    /\ pc' = "capture"
    /\ UNCHANGED <<lines, subdomains, timeoutSecs, success_count, fail_count>>
    /\ UNCHANGED <<parallelVars, restVars>>

\* One iteration up to the call of take_screenshot (lines 324-337).
PsIterate ==
    /\ pc = "for"
    /\ i < Len(subdomains)
    /\ LET subdomain == subdomains[i + 1]
           u == normalize_url(subdomain)
           filename == sanitize_filename(subdomain) \o PngSuffix
       IN  /\ i' = i + 1
           /\ console' = Append(console,
                                Line("progress", i + 1, Len(subdomains), subdomain))
           /\ calls' = Append(calls, [target |-> subdomain, url |-> u,
                                      path |-> filename])
           /\ TsEnter(u, filename, BatchRetries, timeoutSecs * 1000)
    /\ pc' = "capture"
    /\ UNCHANGED <<lines, subdomains, timeoutSecs, success_count, fail_count>>
    /\ UNCHANGED <<parallelVars, restVars>>

\* The driver giving up at the first failed capture.
PsOutcomeAbortsOnFail ==
    /\ pc = "capture"
    /\ tpc = "returned"
    /\ IF ret.success
       THEN /\ console' = Append(console, Line("OK", i, Len(subdomains), <<>>))
            /\ success_count' = success_count + 1
            /\ pc' = "for"
            /\ UNCHANGED fail_count
       ELSE /\ console' = Append(console,
                                 Line("FAIL", i, Len(subdomains), ErrorStr(ret.error)))
            /\ fail_count' = fail_count + 1
            /\ pc' = "done"
            /\ UNCHANGED success_count
    /\ TsLeave
    /\ UNCHANGED <<lines, subdomains, timeoutSecs, i, calls>>
    /\ UNCHANGED <<parallelVars, restVars>>

\* take_screenshot returned: lines 339-344.
PsOutcome ==
    /\ pc = "capture"
    /\ tpc = "returned"
    /\ IF ret.success
       THEN /\ console' = Append(console, Line("OK", i, Len(subdomains), <<>>))
            /\ success_count' = success_count + 1
            /\ UNCHANGED fail_count
       ELSE /\ console' = Append(console,
                                 Line("FAIL", i, Len(subdomains), ErrorStr(ret.error)))
            /\ fail_count' = fail_count + 1
            /\ UNCHANGED success_count
    /\ TsLeave
    /\ pc' = "for"
    /\ UNCHANGED <<lines, subdomains, timeoutSecs, i, calls>>
    /\ UNCHANGED <<parallelVars, restVars>>

\* The list is exhausted: line 346.
PsReturn ==
    /\ pc = "for"
    /\ i = Len(subdomains)
    /\ pc' = "done"
    /\ UNCHANGED <<lines, subdomains, timeoutSecs, i, success_count, fail_count,
                   console, calls>>
    /\ UNCHANGED <<captureVars, parallelVars, restVars>>

process_subdomains ==
    \/ PsLoad
    \/ PsIterate
    \/ PsOutcome
    \/ PsReturn

(***************************************************************************)
(* Initial states.                                                         *)
(***************************************************************************)
SeqsUpTo(S, n) == UNION { [1..k -> S] : k \in 0..n }

LineChoices ==
    { <<"a">>, <<" ", "b">>, <<" ">>, HttpPrefix \o <<"a">> }

TimeoutChoices == {1, 30}

BatchIdle ==
    /\ lines = <<>>
    /\ subdomains = <<>>
    /\ timeoutSecs = 0
    /\ pc = "idle"
    /\ i = 0
    /\ success_count = 0
    /\ fail_count = 0
    /\ console = <<>>
    /\ calls = <<>>

CaptureIdle ==
    /\ url = <<>>
    /\ output_path = <<>>
    /\ retries = 0
    /\ timeout = 0
    /\ attempt = 0
    /\ last_error = None
    /\ tpc = "idle"
    /\ raised = NoExc
    /\ ret = NoRet
    /\ session = {}
    /\ failures = 0
    /\ timeouts = 0
    /\ fs = EmptyDir
    /\ fs0 = EmptyDir

ParallelIdle ==
    /\ mpc = "idle"
    /\ wpc = <<"idle", "idle">>
    /\ proc = <<"none", "none">>
    /\ dur = <<0, 0>>
    /\ left = <<0, 0>>
    /\ emitted = <<0, 0>>
    /\ pipe = <<0, 0>>
    /\ results = <<FALSE, FALSE>>
    /\ out = <<>>
    /\ clock = 0
    /\ overlap = FALSE

(***************************************************************************)
(* fastrec.py: the workspace of one run and the commands of the pipeline.  *)
(***************************************************************************)
\* expected_files of the Run Summary (lines 822-831).
ExpectedFiles ==
    << "alive_subs.txt", "gau.txt", "katana.txt", "allurls.txt", "xss.txt",
       "kxss.txt", "alljs.txt", "alive_js.txt" >>

Artifacts == { ExpectedFiles[k] : k \in 1..Len(ExpectedFiles) }

SummaryKeys == Artifacts \cup {"screenshots"}

\* The external commands of run_recon, in the order of their launch.
Commands ==
    { "subfinder", "subshot", "gau", "katana", "combine", "gf", "kxss",
      "grepjs", "httpxjs", "nuclei" }

Missing == [exists |-> FALSE, lines |-> <<>>]

Present(content) == [exists |-> TRUE, lines |-> content]

EmptyWs == [f \in Artifacts |-> Missing]

NoShots == [exists |-> FALSE, names |-> {}]

NoSummary == [k \in SummaryKeys |-> 0]

\* NUCLEI_TEMPLATES_PATH as shipped (line 19).
NUCLEI_TEMPLATES_PATH ==
    <<"/", "p", "a", "t", "h", "/", "n", "u", "c", "l", "e", "i", "-",
    "t", "e", "m", "p", "l", "a", "t", "e", "s", "/", "h", "t", "t", "p",
    "/", "e", "x", "p", "o", "s", "u", "r", "e", "s", "/">>

EndsWith(s, p) ==
    /\ Len(s) >= Len(p)
    /\ SubSeq(s, Len(s) - Len(p) + 1, Len(s)) = p

\* Python's `p in s` on strings.
IsSubstring(p, s) ==
    \E k \in 0..(Len(s) - Len(p)) : SubSeq(s, k + 1, k + Len(p)) = p

\* The characters of the model's lines, in byte order.
CharOrder == << ".", "h", "j", "s", "x", "y", "z" >>

Rank(c) == CHOOSE k \in 1..Len(CharOrder) : CharOrder[k] = c

RECURSIVE LexLess(_, _)
LexLess(a, b) ==
    IF a = <<>> THEN b # <<>>
    ELSE IF b = <<>> THEN FALSE
    ELSE IF Head(a) = Head(b) THEN LexLess(Tail(a), Tail(b))
    ELSE Rank(Head(a)) < Rank(Head(b))

RECURSIVE SortSet(_)
SortSet(S) ==
    IF S = {} THEN <<>>
    ELSE LET m == CHOOSE x \in S : \A y \in S \ {x} : LexLess(x, y)
         IN  <<m>> \o SortSet(S \ {m})

\* sort -u: the distinct lines, in byte order.
SortU(content) == SortSet({ content[k] : k \in 1..Len(content) })

\* cat of a file: its lines, or nothing (and a complaint) when it is missing.
Cat(w, f) == IF w[f].exists THEN w[f].lines ELSE <<>>

JsSuffix == << ".", "j", "s" >>

\* grep '\.js$'
GrepJs(content) == SelectSeq(content, LAMBDA l : EndsWith(l, JsSuffix))

\* count_lines (lines 30-38): the lines of a non-empty file, else 0.
count_lines(file) ==
    IF file.exists /\ Len(file.lines) > 0 THEN Len(file.lines) ELSE 0

\* The lines the harvesting and probing tools may print.
LineX == << "x" >>
LineY == << "y" >>
LineZ == << "z", ".", "j", "s" >>
LineH == << "h" >>
APng == << "h", ".", "p", "n", "g" >>

\* The artifact each command writes (lines 711-714, 560-563, 738-739, 751,
\* 761, 765, 775, 779); nuclei (line 796) writes none.
WritesKatanaToGau(c) ==
    CASE c = "subfinder" -> "alive_subs.txt"
      [] c = "subshot"   -> "screenshots"
      [] c = "gau"       -> "gau.txt"
      [] c = "katana"    -> "gau.txt"
      [] c = "combine"   -> "allurls.txt"
      [] c = "gf"        -> "xss.txt"
      [] c = "kxss"      -> "kxss.txt"
      [] c = "grepjs"    -> "alljs.txt"
      [] c = "httpxjs"   -> "alive_js.txt"
      [] OTHER           -> "none"

Writes(c) ==
    CASE c = "subfinder" -> "alive_subs.txt"
      [] c = "subshot"   -> "screenshots"
      [] c = "gau"       -> "gau.txt"
      [] c = "katana"    -> "katana.txt"
      [] c = "combine"   -> "allurls.txt"
      [] c = "gf"        -> "xss.txt"
      [] c = "kxss"      -> "kxss.txt"
      [] c = "grepjs"    -> "alljs.txt"
      [] c = "httpxjs"   -> "alive_js.txt"
      [] OTHER           -> "none"

\* The artifacts each command reads.
Reads(c) ==
    CASE c = "subshot"   -> {"alive_subs.txt"}
      [] c = "gau"       -> {"alive_subs.txt"}
      [] c = "katana"    -> {"alive_subs.txt"}
      [] c = "combine"   -> {"katana.txt", "gau.txt"}
      [] c = "gf"        -> {"allurls.txt"}
      [] c = "kxss"      -> {"xss.txt"}
      [] c = "grepjs"    -> {"allurls.txt"}
      [] c = "httpxjs"   -> {"alljs.txt"}
      [] c = "nuclei"    -> {"alive_js.txt"}
      [] OTHER           -> {}

\* Every redirection appending.
AppendsAlways(c) == c \in Commands

\* How the command line opens its artifact: `>>` appends, `>` and the
\* tool's own -o replace.
Appends(c) == c \in {"gau", "katana", "gf", "kxss"}

\* What a command writes when it writes, given the workspace it reads.  The
\* merge and the grep are functions of their input; of the other tools, the
\* harvesters find these lines and the filters and probes keep every line.
Outputs(c, w) ==
    CASE c = "subfinder" -> { <<>>, <<LineH>> }
      [] c = "gau"       -> { <<LineY, LineZ>> }
      [] c = "katana"    -> { <<LineX, LineY, LineX>> }
      [] c = "combine"   -> { SortU(Cat(w, "katana.txt") \o Cat(w, "gau.txt")) }
      [] c = "gf"        -> { Cat(w, "allurls.txt") }
      [] c = "kxss"      -> { Cat(w, "xss.txt") }
      [] c = "grepjs"    -> { GrepJs(Cat(w, "allurls.txt")) }
      [] c = "httpxjs"   -> { Cat(w, "alljs.txt") }
      [] OTHER           -> { <<>> }

\* The stage that launches each command.
StageOf(c) ==
    CASE c = "subfinder" -> 1
      [] c = "subshot"   -> 2
      [] c \in {"gau", "katana"} -> 3
      [] c = "combine"   -> 4
      [] c \in {"gf", "kxss"} -> 5
      [] c \in {"grepjs", "httpxjs"} -> 6
      [] OTHER           -> 7

\* The two commands of the harvest stage, by worker (lines 738-739).
ParallelCmd == << "gau", "katana" >>

Running(c) ==
    \/ c = cmd /\ cproc = "running"
    \/ c \in orphans
    \/ \E w \in 1..2 : ParallelCmd[w] = c /\ proc[w] = "running"

\* The workspaces a command may leave when it exits.
WsAfter(w, c) ==
    IF Writes(c) \in Artifacts
    THEN { [w EXCEPT ![Writes(c)] =
               Present(IF Appends(c) THEN Cat(w, Writes(c)) \o o ELSE o)] :
           o \in Outputs(c, w) }
    ELSE {w}

\* The same when the commands of C exit together.  Outside a run of the
\* pipeline the commands are any two commands and the workspace is not
\* followed.
RECURSIVE WsAfterAll(_, _)
WsAfterAll(w, C) ==
    IF C = {} \/ rpc = "idle" THEN {w}
    ELSE LET c == CHOOSE x \in C : TRUE
         IN  UNION { WsAfterAll(v, C \ {c}) : v \in WsAfter(w, c) }

\* The same for the screenshots directory, which only subshot writes.
ShotsAfter(d, c) ==
    IF Writes(c) = "screenshots"
    THEN { [exists |-> TRUE, names |-> d.names \cup n] :
           n \in { {}, {APng} } }
    ELSE {d}

IdleCfg ==
    [nuclei |-> <<>>, token |-> <<>>, chat |-> <<>>, subshot |-> FALSE,
     playwright |-> FALSE]

ReconIdle ==
    /\ rpc = "idle"
    /\ stagelog = <<>>
    /\ cfg = IdleCfg
    /\ ws = EmptyWs
    /\ shots = NoShots
    /\ cmd = "none"
    /\ cpc = "idle"
    /\ cproc = "none"
    /\ cret = "none"
    /\ orphans = {}
    /\ retd = {}
    /\ attempts = [c \in Commands |-> 0]
    /\ faults = 0
    /\ rlog = <<>>
    /\ summary = NoSummary
    /\ notified = 0
    /\ sent = "none"

NoArg == [given |-> FALSE, value |-> <<>>]

CommandIdle ==
    /\ xpc = "idle"
    /\ xhasfile = FALSE
    /\ xfh = "none"
    /\ xfile = Missing
    /\ xfile0 = Missing
    /\ xproc = "none"
    /\ xemitted = <<>>
    /\ xread = 0
    /\ xret = "none"
    /\ xexc = FALSE

CliIdle ==
    /\ apc = "idle"
    /\ args = [file |-> NoArg, output |-> NoArg, install |-> FALSE,
               uninstall |-> FALSE]
    /\ env = [playwright |-> FALSE, root |-> FALSE, exists |-> FALSE,
              targets |-> 0, answers |-> 0]
    /\ mode = "none"
    /\ prompted = FALSE
    /\ dircreated = FALSE
    /\ captured = FALSE
    /\ exitcode = -1

MainIdle ==
    /\ fpc = "idle"
    /\ fenv = [cmdline |-> "run", missing |-> {}, subshot |-> FALSE,
               playwright |-> FALSE, answers |-> 0, mode |-> 1,
               direxists |-> FALSE, overwrite |-> FALSE]
    /\ fdone = {}
    /\ fexit = -1

ExitIdle ==
    /\ inflight = "none"
    /\ hit = {}

TextIdle ==
    /\ tin = <<>>
    /\ tout = <<>>

MoreIdle == MainIdle /\ ExitIdle /\ TextIdle

ToolIdle == CommandIdle /\ CliIdle /\ MoreIdle

RestIdle == ReconIdle /\ ToolIdle

\* The batch snapshot tool on an input file and an empty output directory.
Init ==
    /\ lines \in SeqsUpTo(LineChoices, MaxLines)
    /\ timeoutSecs \in TimeoutChoices
    /\ subdomains = <<>>
    /\ pc = "start"
    /\ i = 0
    /\ success_count = 0
    /\ fail_count = 0
    /\ console = <<>>
    /\ calls = <<>>
    /\ CaptureIdle
    /\ ParallelIdle
    /\ RestIdle

Next == process_subdomains \/ take_screenshot

Spec == Init /\ [][Next]_vars

\* One call of take_screenshot, with any arguments.
DirectUrl == HttpsPrefix \o <<"a">>
DirectPath == <<"a">> \o PngSuffix
DirectTimeouts == {0, 1500, 30000}

InitCapture ==
    /\ BatchIdle
    /\ ParallelIdle
    /\ RestIdle
    /\ url = DirectUrl
    /\ output_path = DirectPath
    /\ retries \in -1..MaxRetries
    /\ timeout \in DirectTimeouts
    /\ attempt = 0
    /\ last_error = None
    /\ tpc = "while"
    /\ raised = NoExc
    /\ ret = NoRet
    /\ session = {}
    /\ failures = 0
    /\ timeouts = 0
    /\ fs \in { EmptyDir,
                WriteFile(EmptyDir, DirectPath, File("complete", <<"o", "l", "d">>)) }
    /\ fs0 = fs

NextCapture == take_screenshot

SpecCapture == InitCapture /\ [][NextCapture]_vars

(***************************************************************************)
(* Properties of the Batch Snapshot Driver and the Snapshot Capturer.      *)
(***************************************************************************)
IsBlank(line) == \A k \in 1..Len(line) : line[k] \in Whitespace

NonBlankCount(ls) == Cardinality({ k \in 1..Len(ls) : ~IsBlank(ls[k]) })

Printed(kind) == Cardinality({ k \in 1..Len(console) : console[k].kind = kind })

\* Entry k of the list got the outcome `kind` ("OK" or "FAIL").
Outcome(k, kind) ==
    \E j \in 1..Len(console) : console[j].kind = kind /\ console[j].i = k

\* C1: when process_subdomains returns, success_count + fail_count is the
\* number of non-blank input lines; after the k-th target the counters sum
\* to k, and every outcome printed is counted in exactly one of them.
C1_CountsSumToTargets ==
    /\ pc = "done" => success_count + fail_count = NonBlankCount(lines)
    /\ pc = "for" => success_count + fail_count = i
    /\ pc = "capture" => success_count + fail_count = i - 1
    /\ pc \in {"for", "capture", "done"} =>
          /\ success_count = Printed("OK")
          /\ fail_count = Printed("FAIL")

\* A blank line was skipped and a failed capture was counted.
C1_Witness ==
    /\ pc = "done"
    /\ Len(lines) = 2
    /\ NonBlankCount(lines) = 1
    /\ fail_count = 1

\* C2: every entry of the list, repeated entries included, is handed to
\* take_screenshot exactly once and in input order, whatever captures
\* failed, and the driver returns only after the last entry.
C2_EveryEntryOnceInOrder ==
    pc \in {"for", "capture", "done"} =>
        /\ Len(calls) = i
        /\ i <= Len(subdomains)
        /\ \A k \in 1..Len(calls) :
              /\ calls[k].target = subdomains[k]
              /\ calls[k].url = normalize_url(subdomains[k])
        /\ pc = "done" =>
              /\ Len(calls) = Len(subdomains)
              /\ \A k \in 1..Len(subdomains) : Outcome(k, "OK") \/ Outcome(k, "FAIL")

\* The same entry twice: the first capture failed, the second was made.
C2_Witness ==
    /\ pc = "done"
    /\ Len(calls) = 2
    /\ calls[1].target = calls[2].target
    /\ Outcome(1, "FAIL")
    /\ Outcome(2, "OK")

\* C3: for a count retries >= 0, take_screenshot makes at most `retries`
\* attempts; it returns success at the first attempt that succeeds (every
\* earlier attempt failed, nothing runs after the return); it returns
\* failure only after exactly `retries` failed attempts; and the reason it
\* returns is that of the last attempt.
C3_BoundedRetries ==
    retries >= 0 =>
        /\ attempt <= retries
        /\ failures <= attempt
        /\ ret.done =>
              /\ tpc = "returned"
              /\ ~ENABLED take_screenshot
        /\ (ret.done /\ ret.success) => failures = attempt - 1
        /\ (ret.done /\ ~ret.success) =>
              /\ attempt = retries
              /\ failures = retries
              /\ failures > 0 => ret.error = Some(Classify(raised, timeout))

\* Three attempts failed: an earlier one timed out, the last one had a DNS
\* failure, and the DNS failure is the reason returned.
C3_Witness ==
    /\ ret.done
    /\ ~ret.success
    /\ retries = 3
    /\ attempt = 3
    /\ timeouts >= 1
    /\ ret.error = Some(<<"DNS resolution failed">>)

\* The rules of the classification, in priority order.
RuleMatches(r, e) ==
    CASE r = 1 -> e.type = "PlaywrightTimeout"
      [] r = 2 -> Contains(e.msg, NNR)
      [] r = 3 -> Contains(e.msg, REF)
      [] r = 4 -> Contains(e.msg, CTO)
      [] r = 5 -> \/ Contains(e.msg, "SSL")
                  \/ Contains(e.msg, "certificate")
                  \/ Contains(e.msg, "Certificate")

RulesMatching(e) == { r \in 1..5 : RuleMatches(r, e) }

FirstRule(e) == CHOOSE r \in RulesMatching(e) : \A q \in RulesMatching(e) : r <= q

IsPrefix(p, m) == Len(p) <= Len(m) /\ SubSeq(m, 1, Len(p)) = p

ReasonFitsRule(text, r, e) ==
    CASE r = 1 -> /\ Len(text) >= 3
                  /\ text[1] = "Timeout after "
                  /\ text[Len(text)] = "s"
      [] r = 2 -> text = <<"DNS resolution failed">>
      [] r = 3 -> text = <<"Connection refused">>
      [] r = 4 -> text = <<"Connection timed out">>
      [] r = 5 -> text = <<"SSL/Certificate error">>

AllAttemptsTimedOut ==
    /\ ret.done
    /\ attempt > 0
    /\ failures = attempt
    /\ timeouts = attempt

\* C5: when every attempt of a capture made by the batch driver times out,
\* the reason returned is "Timeout after Ns" with N the timeout in seconds
\* that the driver was given.
C5_TimeoutReasonNamesSeconds ==
    (pc = "capture" /\ AllAttemptsTimedOut) =>
        /\ ~ret.success
        /\ ret.error = Some(<<"Timeout after ">> \o IntStr(timeoutSecs) \o <<"s">>)

\* C6: for every value of retries, a returned failure carries a reason and a
\* returned success carries none.
C6_FailureCarriesReason ==
    ret.done =>
        /\ ~ret.success => ret.error.some
        /\ ret.success => ~ret.error.some

\* C7: after a failed attempt the file at output_path is absent or a
\* complete image, and when all attempts failed and no file existed before
\* the call, none exists after it.
C7_NoFileFromFailedAttempt ==
    /\ (failures > 0 /\ tpc = "while" /\ Exists(fs, output_path)) =>
          fs[output_path].kind = "complete"
    /\ (ret.done /\ ~ret.success /\ attempt > 0 /\ ~Exists(fs0, output_path)) =>
          ~Exists(fs, output_path)

NoSharedFilename ==
    \A j, k \in 1..Len(calls) : calls[j].path = calls[k].path => j = k

\* C8: after process_subdomains returns on an initially empty directory,
\* with no filename shared by two entries, an entry whose capture failed
\* has no file and the entries with a file are success_count many.
C8_FilesOnlyForSuccesses ==
    (pc = "done" /\ NoSharedFilename) =>
        /\ \A k \in 1..Len(calls) :
              Outcome(k, "FAIL") => ~Exists(fs, calls[k].path)
        /\ Cardinality({ k \in 1..Len(calls) : Exists(fs, calls[k].path) })
              = success_count

(***************************************************************************)
(* run_parallel_commands(cmd1, cmd2, label1, label2, cwd)                  *)
(*                                                                         *)
(* Worker w is the thread that runs run_cmd for command w.  A command runs *)
(* for dur[w] time units from its Popen and writes up to MaxOut lines to   *)
(* its pipe while it runs.  Time passes (Tick) only when the caller and    *)
(* both workers are blocked: the steps of the program take no time, so     *)
(* clock measures the wall time of the call less its fixed overhead.       *)
(***************************************************************************)
Workers == {1, 2}
Label == <<"GAU", "Katana">>

Terminated(w) == proc[w] \in {"exit0", "exit1"}

OutLine(w, kind) == [w |-> w, label |-> Label[w], kind |-> kind]

BothRunning(p) == p[1] = "running" /\ p[2] = "running"

\* thread1.start() (line 517).
MStart1 ==
    /\ mpc = "start1"
    /\ wpc' = [wpc EXCEPT ![1] = "popen"]
    /\ mpc' = "start2"
    /\ UNCHANGED <<proc, dur, left, emitted, pipe, results, out, clock, overlap>>
    /\ UNCHANGED <<batchVars, captureVars, restVars>>

\* The second thread started only once the first has finished.
MStart2AfterFirst ==
    /\ mpc = "start2"
    /\ wpc[1] = "done"
    /\ wpc' = [wpc EXCEPT ![2] = "popen"]
    /\ mpc' = "join1"
    /\ UNCHANGED <<proc, dur, left, emitted, pipe, results, out, clock, overlap>>
    /\ UNCHANGED <<batchVars, captureVars, restVars>>

\* thread2.start() (line 518).
MStart2 ==
    /\ mpc = "start2"
    /\ wpc' = [wpc EXCEPT ![2] = "popen"]
    /\ mpc' = "join1"
    /\ UNCHANGED <<proc, dur, left, emitted, pipe, results, out, clock, overlap>>
    /\ UNCHANGED <<batchVars, captureVars, restVars>>

\* thread1.join() (line 521).
MJoin1 ==
    /\ mpc = "join1"
    /\ wpc[1] = "done"
    /\ mpc' = "join2"
    /\ UNCHANGED <<wpc, proc, dur, left, emitted, pipe, results, out, clock,
                   overlap>>
    /\ UNCHANGED <<batchVars, captureVars, restVars>>

\* A join that does not wait for the second thread.
MJoin2NoWait ==
    /\ mpc = "join2"
    /\ out' = Append(out, [w |-> 0, label |-> "", kind |-> "both finished"])
    /\ mpc' = "returned"
    /\ UNCHANGED <<wpc, proc, dur, left, emitted, pipe, results, clock, overlap>>
    /\ UNCHANGED <<batchVars, captureVars, restVars>>

\* thread2.join() and the closing print (lines 522-524).
MJoin2 ==
    /\ mpc = "join2"
    /\ wpc[2] = "done"
    /\ out' = Append(out, [w |-> 0, label |-> "", kind |-> "both finished"])
    /\ mpc' = "returned"
    /\ UNCHANGED <<wpc, proc, dur, left, emitted, pipe, results, clock, overlap>>
    /\ UNCHANGED <<batchVars, captureVars, restVars>>

\* subprocess.Popen (lines 492-500): the command starts, or Popen raises.
WPopen(w) ==
    /\ wpc[w] = "popen"
    /\ \/ /\ proc' = [proc EXCEPT ![w] = "running"]
          /\ left' = [left EXCEPT ![w] = dur[w]]
          /\ wpc' = [wpc EXCEPT ![w] = "stream"]
       \/ /\ proc' = [proc EXCEPT ![w] = "launchfail"]
          /\ wpc' = [wpc EXCEPT ![w] = "except"]
          /\ UNCHANGED left
    /\ overlap' = (overlap \/ BothRunning(proc'))
    /\ UNCHANGED <<mpc, dur, emitted, pipe, results, out, clock>>
    /\ UNCHANGED <<batchVars, captureVars, restVars>>

\* for line in process.stdout: print(f"[{label}] {line}") (lines 502-503):
\* one line is read and printed, or reading it raises, or the pipe is at
\* end of file and the loop ends.
WStream(w) ==
    /\ wpc[w] = "stream"
    /\ \/ /\ pipe[w] > 0
          /\ pipe' = [pipe EXCEPT ![w] = pipe[w] - 1]
          /\ \/ /\ out' = Append(out, OutLine(w, "line"))
                /\ UNCHANGED wpc
             \/ /\ wpc' = [wpc EXCEPT ![w] = "except"]
                /\ UNCHANGED out
       \/ /\ pipe[w] = 0
          /\ Terminated(w)
          /\ wpc' = [wpc EXCEPT ![w] = "wait"]
          /\ UNCHANGED <<pipe, out>>
    /\ UNCHANGED <<mpc, proc, dur, left, emitted, results, clock, overlap>>
    /\ UNCHANGED <<batchVars, captureVars, restVars>>

\* A worker that sets the flag of the other worker.
WFinishSetsOtherFlag(w) ==
    /\ wpc[w] = "wait"
    /\ Terminated(w)
    /\ results' = [results EXCEPT ![3 - w] = TRUE]
    /\ out' = Append(out, OutLine(w, "completed"))
    /\ wpc' = [wpc EXCEPT ![w] = "done"]
    /\ UNCHANGED <<mpc, proc, dur, left, emitted, pipe, clock, overlap>>
    /\ UNCHANGED <<batchVars, captureVars, restVars>>

\* process.wait(), the flag, the completion line (lines 505-507).
WFinish(w) ==
    /\ wpc[w] = "wait"
    /\ Terminated(w)
    /\ results' = [results EXCEPT ![w] = TRUE]
    /\ out' = Append(out, OutLine(w, "completed"))
    /\ wpc' = [wpc EXCEPT ![w] = "done"]
    /\ UNCHANGED <<mpc, proc, dur, left, emitted, pipe, clock, overlap>>
    /\ UNCHANGED <<batchVars, captureVars, restVars>>

\* except Exception (lines 509-511).
WExcept(w) ==
    /\ wpc[w] = "except"
    /\ out' = Append(out, OutLine(w, "error"))
    /\ results' = [results EXCEPT ![w] = TRUE]
    /\ wpc' = [wpc EXCEPT ![w] = "done"]
    /\ UNCHANGED <<mpc, proc, dur, left, emitted, pipe, clock, overlap>>
    /\ UNCHANGED <<batchVars, captureVars, restVars>>

\* A running command writes a line to its pipe.
ProcEmit(w) ==
    /\ proc[w] = "running"
    /\ emitted[w] < MaxOut
    /\ emitted' = [emitted EXCEPT ![w] = emitted[w] + 1]
    /\ pipe' = [pipe EXCEPT ![w] = pipe[w] + 1]
    /\ UNCHANGED <<mpc, wpc, proc, dur, left, results, out, clock, overlap>>
    /\ UNCHANGED <<batchVars, captureVars, restVars>>

ProgramStep ==
    \/ MStart1
    \/ MStart2
    \/ MJoin1
    \/ MJoin2
    \/ \E w \in Workers : WPopen(w) \/ WStream(w) \/ WFinish(w) \/ WExcept(w)

\* One time unit passes for every running command; a command whose time is
\* up exits, with status zero or not.  Time is followed up to the return.
Tick ==
    /\ mpc # "returned"
    /\ ~ENABLED ProgramStep
    /\ \E w \in Workers : proc[w] = "running"
    /\ clock' = clock + 1
    /\ left' = [w \in Workers |->
                  IF proc[w] = "running" THEN left[w] - 1 ELSE left[w]]
    /\ \E status \in [Workers -> {"exit0", "exit1"}] :
          proc' = [w \in Workers |->
                     IF proc[w] = "running" /\ left[w] = 1 THEN status[w]
                     ELSE proc[w]]
    /\ ws' \in WsAfterAll(ws, { ParallelCmd[w] :
                                w \in { v \in Workers : proc[v] = "running"
                                                        /\ left[v] = 1 } })
    /\ UNCHANGED <<mpc, wpc, dur, emitted, pipe, results, out, overlap>>
    /\ UNCHANGED <<rpc, stagelog, cfg, shots, cmd, cpc, cproc, cret, orphans,
                   retd, attempts, faults, rlog, summary, notified, sent>>
    /\ UNCHANGED <<batchVars, captureVars, toolVars>>

run_parallel_commands ==
    \/ MStart1
    \/ MStart2
    \/ MJoin1
    \/ MJoin2
    \/ \E w \in Workers : WPopen(w)
    \/ \E w \in Workers : WStream(w)
    \/ \E w \in Workers : WFinish(w)
    \/ \E w \in Workers : WExcept(w)
    \/ \E w \in Workers : ProcEmit(w)
    \/ Tick

\* Lines 486-488: the call, before the threads are started.
InitParallel ==
    /\ pc = "idle"
    /\ lines = <<>>
    /\ subdomains = <<>>
    /\ timeoutSecs = 0
    /\ i = 0
    /\ success_count = 0
    /\ fail_count = 0
    /\ console = <<>>
    /\ calls = <<>>
    /\ CaptureIdle
    /\ RestIdle
    /\ mpc = "start1"
    /\ wpc = <<"idle", "idle">>
    /\ proc = <<"none", "none">>
    /\ dur \in [Workers -> 1..MaxDur]
    /\ left = <<0, 0>>
    /\ emitted = <<0, 0>>
    /\ pipe = <<0, 0>>
    /\ results = <<FALSE, FALSE>>
    /\ out = <<>>
    /\ clock = 0
    /\ overlap = FALSE

NextParallel == run_parallel_commands

SpecParallel == InitParallel /\ [][NextParallel]_vars

(***************************************************************************)
(* Properties of the Parallel Stage Runner.                                *)
(***************************************************************************)
Printed2(w, kind) == \E k \in 1..Len(out) : out[k].w = w /\ out[k].kind = kind

\* Worker w left its try block by an exception raised while it was reading
\* or printing the output of a command that had started.
StreamError(w) == Printed2(w, "error") /\ proc[w] # "launchfail"

C10_RunsConcurrently ==
    /\ mpc \in {"join1", "join2", "returned"} => wpc[2] # "idle"
    /\ mpc = "returned" => clock <= Max(dur[1], dur[2])
    /\ (mpc = "returned" /\ Terminated(1) /\ Terminated(2)) =>
          /\ clock = Max(dur[1], dur[2])
          /\ overlap

\* Commands of 2 and 1 time units ran at the same time and the call
\* returned after 2 time units.
C10_Witness ==
    /\ mpc = "returned"
    /\ dur = <<2, 1>>
    /\ Terminated(1)
    /\ Terminated(2)
    /\ overlap
    /\ clock = 2

(***************************************************************************)
(* fastrec.py: run_recon, the Pipeline Sequencer, with the runners it      *)
(* calls (run_piped_command, run_subshot, run_parallel_commands) and the   *)
(* external commands, which act on the workspace while they run.           *)
(***************************************************************************)
\* The command a runner is waiting for exits, with status zero or not.
ProcExit ==
    /\ cproc = "running"
    /\ \E status \in {"exit0", "exit1"} : cproc' = status
    /\ ws' \in WsAfter(ws, cmd)
    /\ shots' \in ShotsAfter(shots, cmd)
    /\ UNCHANGED <<rpc, stagelog, cfg, cmd, cpc, cret, orphans, retd,
                   attempts, faults, rlog, summary, notified, sent>>
    /\ UNCHANGED <<batchVars, captureVars, parallelVars, toolVars>>

\* A command no runner waits for any more exits.
OrphanExit(c) ==
    /\ c \in orphans
    /\ orphans' = orphans \ {c}
    /\ ws' \in WsAfter(ws, c)
    /\ shots' \in ShotsAfter(shots, c)
    /\ UNCHANGED <<rpc, stagelog, cfg, cmd, cpc, cproc, cret, retd, attempts, faults,
                   rlog, summary, notified, sent>>
    /\ UNCHANGED <<batchVars, captureVars, parallelVars, toolVars>>

\* subprocess.Popen (lines 441-449, 570-578): the shell starts, or Popen
\* raises and the except clause returns False (lines 466-468, 589-591).
Popen ==
    /\ cpc = "popen"
    /\ attempts' = [attempts EXCEPT ![cmd] = attempts[cmd] + 1]
    /\ \/ /\ cproc' = "running"
          /\ cpc' = "stream"
          /\ UNCHANGED <<cret, retd, faults>>
       \/ /\ faults < MaxFaults
          /\ faults' = faults + 1
          /\ cpc' = "ret"
          /\ cret' = "false"
          /\ retd' = retd \cup {cmd}
          /\ UNCHANGED cproc
    /\ UNCHANGED <<rpc, stagelog, cfg, ws, shots, cmd, orphans, rlog,
                   summary, notified, sent>>
    /\ UNCHANGED <<batchVars, captureVars, parallelVars, toolVars>>

\* for line in process.stdout: print(line) (lines 452-453, 580-581): the
\* loop ends when the command has exited, or reading or printing a line
\* raises and the except clause returns False, the command left as it is.
StreamLoop ==
    /\ cpc = "stream"
    /\ \/ /\ cproc \in {"exit0", "exit1"}
          /\ cpc' = "wait"
          /\ UNCHANGED <<cproc, cret, orphans, retd, faults>>
       \/ /\ faults < MaxFaults
          /\ faults' = faults + 1
          /\ cpc' = "ret"
          /\ cret' = "false"
          /\ retd' = retd \cup {cmd}
          /\ orphans' = IF cproc = "running" THEN orphans \cup {cmd}
                        ELSE orphans
          /\ cproc' = "none"
    /\ UNCHANGED <<rpc, stagelog, cfg, ws, shots, cmd, attempts, rlog,
                   summary, notified, sent>>
    /\ UNCHANGED <<batchVars, captureVars, parallelVars, toolVars>>

\* process.wait() and the return of True (lines 456-464, 583-586), whatever
\* the exit status.
WaitReturn ==
    /\ cpc = "wait"
    /\ cproc \in {"exit0", "exit1"}
    /\ cpc' = "ret"
    /\ cret' = "true"
    /\ cproc' = "none"
    /\ retd' = retd \cup {cmd}
    /\ UNCHANGED <<rpc, stagelog, cfg, ws, shots, cmd, orphans, attempts,
                   faults, rlog, summary, notified, sent>>
    /\ UNCHANGED <<batchVars, captureVars, parallelVars, toolVars>>

PcPopen  == cmd \notin {"none", "subshot"} /\ Popen
PcStream == cmd \notin {"none", "subshot"} /\ StreamLoop
PcWait   == cmd \notin {"none", "subshot"} /\ WaitReturn

run_piped_command == PcPopen \/ PcStream \/ PcWait

SsPopen  == cmd = "subshot" /\ Popen
SsStream == cmd = "subshot" /\ StreamLoop
SsWait   == cmd = "subshot" /\ WaitReturn

\* A run_subshot that does not look at the size of the alive list.
SsCheckIgnoresEmpty ==
    /\ cmd = "subshot"
    /\ cpc = "check"
    /\ LET skip ==
             IF ~cfg.subshot THEN "skip: subshot not found"
             ELSE IF ~cfg.playwright THEN "skip: playwright not installed"
             ELSE IF ~ws["alive_subs.txt"].exists
                  THEN "skip: alive_subs.txt not found"
             ELSE "no"
       IN  IF skip # "no"
           THEN /\ rlog' = Append(rlog, skip)
                /\ cret' = "false"
                /\ cpc' = "ret"
                /\ retd' = retd \cup {cmd}
           ELSE /\ cpc' = "popen"
                /\ UNCHANGED <<rlog, cret, retd>>
    /\ UNCHANGED <<rpc, stagelog, cfg, ws, shots, cmd, cproc, orphans,
                   attempts, faults, summary, notified, sent>>
    /\ UNCHANGED <<batchVars, captureVars, parallelVars, toolVars>>

\* run_subshot before its Popen (lines 537-568): the four reasons to skip.
SsCheck ==
    /\ cmd = "subshot"
    /\ cpc = "check"
    /\ LET skip ==
             IF ~cfg.subshot THEN "skip: subshot not found"
             ELSE IF ~cfg.playwright THEN "skip: playwright not installed"
             ELSE IF ~ws["alive_subs.txt"].exists
                  THEN "skip: alive_subs.txt not found"
             ELSE IF Len(ws["alive_subs.txt"].lines) = 0
                  THEN "skip: alive_subs.txt is empty"
             ELSE "no"
       IN  IF skip # "no"
           THEN /\ rlog' = Append(rlog, skip)
                /\ cret' = "false"
                /\ cpc' = "ret"
                /\ retd' = retd \cup {cmd}
           ELSE /\ cpc' = "popen"
                /\ UNCHANGED <<rlog, cret, retd>>
    /\ UNCHANGED <<rpc, stagelog, cfg, ws, shots, cmd, cproc, orphans, attempts, faults, summary, notified, sent>>
    /\ UNCHANGED <<batchVars, captureVars, parallelVars, toolVars>>

run_subshot == SsCheck \/ SsPopen \/ SsStream \/ SsWait

\* The call of a runner on a command, and a returned call.
Call(c) ==
    /\ cmd' = c
    /\ cpc' = "popen"
    /\ cproc' = "none"
    /\ cret' = "none"

Returned == cpc = "ret"

Enter(n) == stagelog' = Append(stagelog, n)

\* Stage 1 (lines 703-716).
RcStage1 ==
    /\ rpc = "stage1"
    /\ Enter(1)
    /\ Call("subfinder")
    /\ rpc' = "stage1_run"
    /\ UNCHANGED <<cfg, ws, shots, orphans, retd, attempts, faults, rlog,
                   summary, notified, sent>>
    /\ UNCHANGED <<batchVars, captureVars, parallelVars, toolVars>>

\* A sequencer that gives up when stage 1 found no alive host.
RcStage1CheckAborts ==
    /\ rpc = "stage1_run"
    /\ Returned
    /\ IF ~ws["alive_subs.txt"].exists \/ Len(ws["alive_subs.txt"].lines) = 0
       THEN /\ rlog' = Append(rlog, "no alive subdomains")
            /\ rpc' = "finished"
       ELSE /\ rpc' = "stage2"
            /\ UNCHANGED rlog
    /\ UNCHANGED <<stagelog, cfg, ws, shots, cmd, cpc, cproc, cret, orphans,
                   retd, attempts, faults, summary, notified, sent>>
    /\ UNCHANGED <<batchVars, captureVars, parallelVars, toolVars>>

\* The check of the alive list (lines 718-721): a warning, and on.
RcStage1Check ==
    /\ rpc = "stage1_run"
    /\ Returned
    /\ rlog' = IF ~ws["alive_subs.txt"].exists
                  \/ Len(ws["alive_subs.txt"].lines) = 0
               THEN Append(rlog, "no alive subdomains")
               ELSE rlog
    /\ rpc' = "stage2"
    /\ UNCHANGED <<stagelog, cfg, ws, shots, cmd, cpc, cproc, cret, orphans,
                   retd, attempts, faults, summary, notified, sent>>
    /\ UNCHANGED <<batchVars, captureVars, parallelVars, toolVars>>

\* Stage 2 (lines 726-729).
RcStage2 ==
    /\ rpc = "stage2"
    /\ Enter(2)
    /\ cmd' = "subshot"
    /\ cpc' = "check"
    /\ cproc' = "none"
    /\ cret' = "none"
    /\ rpc' = "stage2_run"
    /\ UNCHANGED <<cfg, ws, shots, orphans, retd, attempts, faults, rlog,
                   summary, notified, sent>>
    /\ UNCHANGED <<batchVars, captureVars, parallelVars, toolVars>>

\* Stage 3 (lines 734-743): the call of run_parallel_commands.
RcStage3 ==
    /\ rpc = "stage2_run"
    /\ Returned
    /\ Enter(3)
    /\ cmd' = "none"
    /\ cpc' = "idle"
    /\ cproc' = "none"
    /\ mpc' = "start1"
    /\ dur' = <<1, 1>>
    /\ rpc' = "stage3_run"
    /\ UNCHANGED <<cfg, ws, shots, cret, orphans, retd, attempts, faults, rlog,
                   summary, notified, sent>>
    /\ UNCHANGED <<wpc, proc, left, emitted, pipe, results, out, clock,
                   overlap>>
    /\ UNCHANGED <<batchVars, captureVars, toolVars>>

\* run_parallel_commands has returned: its locals are gone, a command it
\* left running runs on.  Stage 4 (lines 745-752) starts the merge.
RcStage4 ==
    /\ rpc = "stage3_run"
    /\ mpc = "returned"
    /\ Enter(4)
    /\ Call("combine")
    /\ rpc' = "stage4_run"
    /\ orphans' = orphans \cup
          { ParallelCmd[w] : w \in { v \in 1..2 : wpc[v] = "done"
                                                  /\ proc[v] = "running" } }
    /\ retd' = retd \cup
          { ParallelCmd[w] : w \in { v \in 1..2 : wpc[v] = "done" } }
    /\ attempts' = [c \in Commands |->
          IF \E w \in 1..2 : ParallelCmd[w] = c /\ proc[w] # "none"
          THEN attempts[c] + 1 ELSE attempts[c]]
    /\ mpc' = "idle"
    /\ IF \A w \in 1..2 : wpc[w] = "done"
       THEN /\ wpc' = <<"idle", "idle">>
            /\ proc' = <<"none", "none">>
            /\ dur' = <<0, 0>>
            /\ left' = <<0, 0>>
            /\ emitted' = <<0, 0>>
            /\ pipe' = <<0, 0>>
            /\ results' = <<FALSE, FALSE>>
            /\ out' = <<>>
            /\ clock' = 0
            /\ overlap' = FALSE
       ELSE UNCHANGED <<wpc, proc, dur, left, emitted, pipe, results, out,
                        clock, overlap>>
    /\ UNCHANGED <<cfg, ws, shots, faults, rlog, summary, notified, sent>>
    /\ UNCHANGED <<batchVars, captureVars, toolVars>>

\* A sequencer that starts the next command without waiting for the last.
NextCallNoWait(from, c, to) ==
    /\ rpc = from
    /\ Call(c)
    /\ rpc' = to
    /\ UNCHANGED <<cfg, ws, shots, orphans, retd, attempts, faults, rlog,
                   summary, notified, sent>>
    /\ UNCHANGED <<batchVars, captureVars, parallelVars, toolVars>>

\* The next call of run_piped_command, after the one before has returned.
NextCall(from, c, to) ==
    /\ rpc = from
    /\ Returned
    /\ Call(c)
    /\ rpc' = to
    /\ UNCHANGED <<cfg, ws, shots, orphans, retd, attempts, faults, rlog,
                   summary, notified, sent>>
    /\ UNCHANGED <<batchVars, captureVars, parallelVars, toolVars>>

\* Stage 5 (lines 754-766): gf, then kxss.
RcStage5 == Enter(5) /\ NextCall("stage4_run", "gf", "stage5_gf")

RcStage5Kxss ==
    UNCHANGED stagelog /\ NextCall("stage5_gf", "kxss", "stage5_kxss")

\* Stage 6 (lines 768-780): grep, then httpx.
RcStage6 == Enter(6) /\ NextCall("stage5_kxss", "grepjs", "stage6_grep")

RcStage6Httpx ==
    UNCHANGED stagelog /\ NextCall("stage6_grep", "httpxjs", "stage6_httpx")

\* The placeholder the shipped path starts with (line 789).
Placeholder == << "/", "p", "a", "t", "h" >>

\* A stage 7 that looks for the placeholder at the start of the path only.
RcStage7PrefixOnly ==
    /\ rpc = "stage6_httpx"
    /\ Returned
    /\ Enter(7)
    /\ rpc' = "stage7_run"
    /\ IF StartsWith(cfg.nuclei, Placeholder)
       THEN /\ rlog' = Append(rlog, "nuclei path placeholder: scan skipped")
            /\ cmd' = "none"
            /\ cpc' = "idle"
            /\ cproc' = "none"
            /\ UNCHANGED cret
       ELSE /\ Call("nuclei")
            /\ UNCHANGED rlog
    /\ UNCHANGED <<cfg, ws, shots, orphans, retd, attempts, faults, summary,
                   notified, sent>>
    /\ UNCHANGED <<batchVars, captureVars, parallelVars, toolVars>>

\* Stage 7 (lines 782-797): the scan, unless the path holds the placeholder.
RcStage7 ==
    /\ rpc = "stage6_httpx"
    /\ Returned
    /\ Enter(7)
    /\ rpc' = "stage7_run"
    /\ IF IsSubstring(Placeholder, cfg.nuclei)
       THEN /\ rlog' = Append(rlog, "nuclei path placeholder: scan skipped")
            /\ cmd' = "none"
            /\ cpc' = "idle"
            /\ cproc' = "none"
            /\ UNCHANGED cret
       ELSE /\ Call("nuclei")
            /\ UNCHANGED rlog
    /\ UNCHANGED <<cfg, ws, shots, orphans, retd, attempts, faults, summary,
                   notified, sent>>
    /\ UNCHANGED <<batchVars, captureVars, parallelVars, toolVars>>

\* The screenshots entry (lines 833-840).
CountPng(dir) ==
    IF dir.exists
    THEN Cardinality({ n \in dir.names : EndsWith(n, PngSuffix) })
    ELSE 0

\* A summary that reports nothing once a runner has met an exception.
RcSummaryTrustsRunners ==
    /\ rpc = "stage7_run"
    /\ cpc \in {"idle", "ret"}
    /\ summary' = [k \in SummaryKeys |->
                     IF faults > 0 THEN 0
                     ELSE IF k = "screenshots" THEN CountPng(shots)
                     ELSE IF ws[k].exists THEN count_lines(ws[k]) ELSE 0]
    /\ cmd' = "none"
    /\ cpc' = "idle"
    /\ cproc' = "none"
    /\ rpc' = "summary_done"
    /\ UNCHANGED <<stagelog, cfg, ws, shots, cret, orphans, retd,
                   attempts, faults, rlog, notified, sent>>
    /\ UNCHANGED <<batchVars, captureVars, parallelVars, toolVars>>

\* The Run Summary (lines 799-840): every entry is read from the workspace.
RcSummary ==
    /\ rpc = "stage7_run"
    /\ cpc \in {"idle", "ret"}
    /\ summary' = [k \in SummaryKeys |->
                     IF k = "screenshots" THEN CountPng(shots)
                     ELSE IF ws[k].exists THEN count_lines(ws[k]) ELSE 0]
    /\ cmd' = "none"
    /\ cpc' = "idle"
    /\ cproc' = "none"
    /\ rpc' = "summary_done"
    /\ UNCHANGED <<stagelog, cfg, ws, shots, cret, orphans, retd,
                   attempts, faults, rlog, notified, sent>>
    /\ UNCHANGED <<batchVars, captureVars, parallelVars, toolVars>>

\* A sequencer that notifies when either credential is set.
RcNotifyEitherCredential ==
    /\ rpc = "summary_done"
    /\ IF cfg.token # <<>> \/ cfg.chat # <<>>
       THEN /\ notified' = notified + 1
            /\ rpc' = "notify_call"
       ELSE /\ rpc' = "no_notify"
            /\ UNCHANGED notified
    /\ UNCHANGED <<stagelog, cfg, ws, shots, cmd, cpc, cproc, cret, orphans,
                   retd, attempts, faults, rlog, summary, sent>>
    /\ UNCHANGED <<batchVars, captureVars, parallelVars, toolVars>>

\* if TELEGRAM_BOT_TOKEN and TELEGRAM_CHAT_ID (lines 842-845).
RcNotify ==
    /\ rpc = "summary_done"
    /\ IF cfg.token # <<>> /\ cfg.chat # <<>>
       THEN /\ notified' = notified + 1
            /\ rpc' = "notify_call"
       ELSE /\ rpc' = "no_notify"
            /\ UNCHANGED notified
    /\ UNCHANGED <<stagelog, cfg, ws, shots, cmd, cpc, cproc, cret, orphans,
                   retd, attempts, faults, rlog, summary, sent>>
    /\ UNCHANGED <<batchVars, captureVars, parallelVars, toolVars>>

\* send_telegram_notification (lines 41-84): False without credentials; the
\* message is sent, or whatever is raised is caught, reported, and False
\* returned.
send_telegram_notification ==
    /\ rpc = "notify_call"
    /\ rpc' = "notify_ret"
    /\ IF cfg.token = <<>> \/ cfg.chat = <<>>
       THEN sent' = "false" /\ UNCHANGED rlog
       ELSE \/ sent' = "true" /\ UNCHANGED rlog
            \/ /\ sent' = "false"
               /\ rlog' = Append(rlog, "telegram notification failed")
    /\ UNCHANGED <<stagelog, cfg, ws, shots, cmd, cpc, cproc, cret, orphans,
                   retd, attempts, faults, summary, notified>>
    /\ UNCHANGED <<batchVars, captureVars, parallelVars, toolVars>>

\* The closing lines (lines 846-852).
RcFinish ==
    /\ rpc \in {"notify_ret", "no_notify"}
    /\ rpc' = "finished"
    /\ UNCHANGED <<stagelog, cfg, ws, shots, cmd, cpc, cproc, cret, orphans,
                   retd, attempts, faults, rlog, summary, notified, sent>>
    /\ UNCHANGED <<batchVars, captureVars, parallelVars, toolVars>>

run_recon ==
    \/ RcStage1
    \/ RcStage1Check
    \/ RcStage2
    \/ RcStage3
    \/ RcStage4
    \/ RcStage5
    \/ RcStage5Kxss
    \/ RcStage6
    \/ RcStage6Httpx
    \/ RcStage7
    \/ RcSummary
    \/ RcNotify
    \/ RcFinish

\* A configured path, and one that holds "/path" further in.
RealPath == << "/", "o", "p", "t", "/", "n" >>
PathInside == << "/", "o", "/", "p", "a", "t", "h", "s" >>

\* The configurations followed: the script as shipped on a machine without
\* subshot, a configured one, and two configured in part.
CfgChoices ==
    { [nuclei |-> NUCLEI_TEMPLATES_PATH, token |-> <<>>, chat |-> <<>>,
       subshot |-> FALSE, playwright |-> TRUE],
      [nuclei |-> RealPath, token |-> <<"t">>, chat |-> <<"c">>,
       subshot |-> TRUE, playwright |-> TRUE],
      [nuclei |-> PathInside, token |-> <<"t">>, chat |-> <<>>,
       subshot |-> TRUE, playwright |-> FALSE],
      [nuclei |-> RealPath, token |-> <<>>, chat |-> <<"c">>,
       subshot |-> FALSE, playwright |-> FALSE] }

\* run_recon in a fresh workspace, about to start stage 1 (line 699).
InitRecon ==
    /\ BatchIdle
    /\ CaptureIdle
    /\ ParallelIdle
    /\ ToolIdle
    /\ rpc = "stage1"
    /\ stagelog = <<>>
    /\ cfg \in CfgChoices
    /\ ws = EmptyWs
    /\ shots = NoShots
    /\ cmd = "none"
    /\ cpc = "idle"
    /\ cproc = "none"
    /\ cret = "none"
    /\ orphans = {}
    /\ retd = {}
    /\ attempts = [c \in Commands |-> 0]
    /\ faults = 0
    /\ rlog = <<>>
    /\ summary = NoSummary
    /\ notified = 0
    /\ sent = "none"

NextRecon ==
    \/ run_recon
    \/ run_piped_command
    \/ run_subshot
    \/ run_parallel_commands
    \/ send_telegram_notification
    \/ ProcExit
    \/ \E c \in Commands : OrphanExit(c)

SpecRecon == InitRecon /\ [][NextRecon]_vars

\* Every external process terminates and every thread that can run does.
FairSpecRecon == SpecRecon /\ WF_vars(NextRecon)

(***************************************************************************)
(* Properties of the Pipeline Sequencer.                                   *)
(***************************************************************************)
Targets == Artifacts \cup {"screenshots"}

\* The running commands that have artifact f open for writing.
Writers(f) == { c \in Commands : Running(c) /\ Writes(c) = f }

\* C11: no artifact is ever open for writing by two running commands, the
\* commands a runner has left running included; the two commands of the
\* harvest stage write gau.txt and katana.txt.
C11_NoWriteWriteRace ==
    /\ \A f \in Targets : Cardinality(Writers(f)) <= 1
    /\ Running("gau") => Writers("gau.txt") = {"gau"}
    /\ Running("katana") => Writers("katana.txt") = {"katana"}

\* Both harvesters are running, next to a command an earlier stage left
\* running.
C11_Witness ==
    /\ Running("gau")
    /\ Running("katana")
    /\ orphans # {}

StageOrder == << 1, 2, 3, 4, 5, 6, 7 >>

SummaryReached == rpc \in {"summary_done", "notify_call", "notify_ret",
                           "no_notify", "finished"}

\* C12: whatever the outcomes of the stages, the stages are entered in the
\* order 1..7, none twice, and when every process terminates the Run Summary
\* is reached, with all seven stages entered before it.
C12_NoGlobalAbort ==
    /\ [](IsPrefix(stagelog, StageOrder))
    /\ [](rpc = "finished" => stagelog = StageOrder)
    /\ <>(SummaryReached /\ stagelog = StageOrder)

\* The summary is reached in a run where a runner met an exception, stage 1
\* found no alive host and an artifact is missing.
C12_Witness ==
    /\ SummaryReached
    /\ faults > 0
    /\ \E k \in 1..Len(rlog) : rlog[k] = "no alive subdomains"
    /\ \E f \in Artifacts : ~ws[f].exists

\* The alive list is missing or empty, or subshot or Playwright is not there.
NothingToShoot ==
    \/ ~cfg.subshot
    \/ ~cfg.playwright
    \/ ~ws["alive_subs.txt"].exists
    \/ Len(ws["alive_subs.txt"].lines) = 0

SkipNotices ==
    { "skip: subshot not found", "skip: playwright not installed",
      "skip: alive_subs.txt not found", "skip: alive_subs.txt is empty" }

Skipped == \E k \in 1..Len(rlog) : rlog[k] \in SkipNotices

\* C13: when run_subshot finds nothing to shoot it returns False at once,
\* having started no process; no snapshot process exists in such a run, the
\* sequencer can go on to stage 3, and the run ends with all stages entered.
C13_SkippedNotFailed ==
    /\ [][(cmd = "subshot" /\ cpc = "check" /\ cpc' # "check"
             /\ NothingToShoot)
          => /\ cpc' = "ret"
             /\ cret' = "false"
             /\ Skipped'
             /\ UNCHANGED <<attempts, cproc, orphans, shots>>]_vars
    /\ [](Skipped => attempts["subshot"] = 0 /\ ~Running("subshot"))
    /\ [](Skipped /\ rpc = "stage2_run" => ENABLED RcStage3)
    /\ [](Skipped /\ rpc = "finished" => stagelog = StageOrder)

\* subshot and Playwright are there, stage 1 left an empty alive list, the
\* snapshot stage was skipped and the run has finished.
C13_Witness ==
    /\ rpc = "finished"
    /\ cfg.subshot /\ cfg.playwright
    /\ \E k \in 1..Len(rlog) : rlog[k] = "skip: alive_subs.txt is empty"
    /\ attempts["subshot"] = 0

Producers(f) == { c \in Commands : Writes(c) = f }

\* A command whose runner has been called.
Called(c) ==
    \/ c = cmd
    \/ attempts[c] > 0
    \/ \E w \in 1..2 : ParallelCmd[w] = c /\ wpc[w] # "idle"

\* C14: every artifact is the output of one command of one stage, and a
\* command that reads an artifact is started only after the runner of the
\* command that writes it has returned.
C14_WriteThenRead ==
    /\ \A f \in Artifacts :
          /\ Cardinality(Producers(f)) = 1
          /\ Cardinality({ StageOf(c) : c \in Producers(f) }) = 1
    /\ \A c \in Commands :
          Called(c) => \A f \in Reads(c) : Producers(f) \subseteq retd

\* The scan is running on alive_js.txt; every other command was launched and
\* its runner has returned.
C14_Witness ==
    /\ cmd = "nuclei"
    /\ cproc = "running"
    /\ \A c \in Commands \ {"nuclei"} : attempts[c] = 1 /\ c \in retd

\* The configured path holds "/path" somewhere.
HasPlaceholder ==
    \E k \in 1..Len(cfg.nuclei) :
       /\ k + 4 <= Len(cfg.nuclei)
       /\ cfg.nuclei[k] = "/" /\ cfg.nuclei[k + 1] = "p"
       /\ cfg.nuclei[k + 2] = "a" /\ cfg.nuclei[k + 3] = "t"
       /\ cfg.nuclei[k + 4] = "h"

ScanWarned ==
    \E k \in 1..Len(rlog) : rlog[k] = "nuclei path placeholder: scan skipped"

Stage7Entered == Len(stagelog) = 7

\* C15: with the placeholder in the path no scanner is ever started, stage 7
\* prints the warning and the summary follows; without it stage 7 starts the
\* scanner, once, on alive_js.txt, and prints no warning.
C15_ScanIffConfigured ==
    /\ attempts["nuclei"] <= 1
    /\ Reads("nuclei") = {"alive_js.txt"}
    /\ HasPlaceholder =>
          /\ attempts["nuclei"] = 0
          /\ cmd # "nuclei"
          /\ ~Running("nuclei")
          /\ Stage7Entered => ScanWarned
          /\ rpc = "stage7_run" => ENABLED RcSummary
    /\ ~HasPlaceholder =>
          /\ ~ScanWarned
          /\ Stage7Entered => cmd = "nuclei" \/ attempts["nuclei"] = 1
          /\ SummaryReached => attempts["nuclei"] = 1

\* The path holds the placeholder after its first directory; the run has
\* finished without a scan.
C15_Witness ==
    /\ rpc = "finished"
    /\ cfg.nuclei = PathInside
    /\ attempts["nuclei"] = 0
    /\ ScanWarned

\* What is on disk: the lines of each text artifact and the .png files of
\* the screenshots directory.
OnDisk(w, d) ==
    [k \in SummaryKeys |->
       IF k = "screenshots"
       THEN IF d.exists
            THEN Cardinality({ n \in d.names :
                               Len(n) >= 4 /\ SubSeq(n, Len(n) - 3, Len(n))
                                              = << ".", "p", "n", "g" >> })
            ELSE 0
       ELSE IF w[k].exists THEN Len(w[k].lines) ELSE 0]

CredentialsSet == Len(cfg.token) > 0 /\ Len(cfg.chat) > 0

NotifyWarned ==
    \E k \in 1..Len(rlog) : rlog[k] = "telegram notification failed"

\* C17: the notifier is called at most once, only with both credentials set
\* and only after the seven stages and the summary; the call always returns,
\* a failed one returns False after its warning, and the closing step of the
\* run can follow.
C17_NotifierOnceAtEnd ==
    /\ notified <= 1
    /\ ~CredentialsSet => notified = 0 /\ sent = "none"
    /\ notified = 1 =>
          /\ rpc \in {"notify_call", "notify_ret", "finished"}
          /\ stagelog = StageOrder
          /\ SummaryReached
    /\ rpc \in {"stage1", "stage1_run", "stage2", "stage2_run", "stage3_run",
                "stage4_run", "stage5_gf", "stage5_kxss", "stage6_grep",
                "stage6_httpx", "stage7_run", "summary_done"}
          => notified = 0
    /\ rpc = "notify_call" => ENABLED send_telegram_notification
    /\ rpc = "notify_ret" => sent \in {"true", "false"} /\ ENABLED RcFinish
    /\ NotifyWarned <=> sent = "false"
    /\ rpc = "finished" /\ CredentialsSet => notified = 1

\* The run has finished although the notifier failed.
C17_Witness ==
    /\ rpc = "finished"
    /\ notified = 1
    /\ sent = "false"
    /\ NotifyWarned

(***************************************************************************)
(* fastrec.py: run_command(command, output_file, cwd, shell)               *)
(***************************************************************************)
\* open(file_path, 'w') (lines 381-384): the file is created or truncated,
\* or open raises.  Without an output_file there is nothing to open.
XOpen ==
    /\ xpc = "open"
    /\ IF xhasfile
       THEN \/ /\ xfh' = "open"
               /\ xfile' = Present(<<>>)
               /\ xpc' = "popen"
            \/ /\ xpc' = "except"
               /\ UNCHANGED <<xfh, xfile>>
       ELSE /\ xpc' = "popen"
            /\ UNCHANGED <<xfh, xfile>>
    /\ UNCHANGED <<xhasfile, xfile0, xproc, xemitted, xread, xret, xexc>>
    /\ UNCHANGED <<batchVars, captureVars, parallelVars, reconVars, cliVars,
                   moreVars>>

\* subprocess.Popen (lines 387-395).
XPopen ==
    /\ xpc = "popen"
    /\ \/ /\ xproc' = "running"
          /\ xpc' = "stream"
       \/ /\ xpc' = "except"
          /\ UNCHANGED xproc
    /\ UNCHANGED <<xhasfile, xfh, xfile, xfile0, xemitted, xread, xret, xexc>>
    /\ UNCHANGED <<batchVars, captureVars, parallelVars, reconVars, cliVars,
                   moreVars>>

\* for line in process.stdout: print(line); file_handle.write(line) (lines
\* 398-401).  A line is read, printed and written; or reading, printing or
\* writing it raises; or the pipe is at end of file and the loop ends.
XStream ==
    /\ xpc = "stream"
    /\ \/ /\ xread < Len(xemitted)
          /\ xread' = xread + 1
          /\ \/ /\ xfile' = IF xfh = "open"
                            THEN Present(Append(xfile.lines,
                                                xemitted[xread + 1]))
                            ELSE xfile
                /\ UNCHANGED xpc
             \/ /\ xpc' = "except"
                /\ UNCHANGED xfile
       \/ /\ xread = Len(xemitted)
          /\ xproc \in {"exit0", "exit1"}
          /\ xpc' = "wait"
          /\ UNCHANGED <<xread, xfile>>
    /\ UNCHANGED <<xhasfile, xfh, xfile0, xproc, xemitted, xret, xexc>>
    /\ UNCHANGED <<batchVars, captureVars, parallelVars, reconVars, cliVars,
                   moreVars>>

\* process.wait(), file_handle.close(), and the test of returncode (lines
\* 404-414).
XFinish ==
    /\ xpc = "wait"
    /\ xproc \in {"exit0", "exit1"}
    /\ xfh' = IF xfh = "open" THEN "closed" ELSE xfh
    /\ xret' = IF xproc = "exit0" THEN "true" ELSE "false"
    /\ xpc' = "returned"
    /\ UNCHANGED <<xhasfile, xfile, xfile0, xproc, xemitted, xread, xexc>>
    /\ UNCHANGED <<batchVars, captureVars, parallelVars, reconVars, cliVars,
                   moreVars>>

\* An except clause that leaves the file open.
XExceptLeavesOpen ==
    /\ xpc = "except"
    /\ xexc' = TRUE
    /\ xret' = "false"
    /\ xpc' = "returned"
    /\ UNCHANGED <<xhasfile, xfh, xfile, xfile0, xproc, xemitted, xread>>
    /\ UNCHANGED <<batchVars, captureVars, parallelVars, reconVars, cliVars,
                   moreVars>>

\* except Exception (lines 416-420): the file is closed if it was opened.
XExcept ==
    /\ xpc = "except"
    /\ xexc' = TRUE
    /\ xfh' = IF xfh = "open" THEN "closed" ELSE xfh
    /\ xret' = "false"
    /\ xpc' = "returned"
    /\ UNCHANGED <<xhasfile, xfile, xfile0, xproc, xemitted, xread>>
    /\ UNCHANGED <<batchVars, captureVars, parallelVars, reconVars, cliVars,
                   moreVars>>

\* The running command writes a line to its pipe.
XProcEmit ==
    /\ xproc = "running"
    /\ Len(xemitted) < MaxEmit
    /\ \E l \in {LineX, LineY} : xemitted' = Append(xemitted, l)
    /\ UNCHANGED <<xpc, xhasfile, xfh, xfile, xfile0, xproc, xread, xret, xexc>>
    /\ UNCHANGED <<batchVars, captureVars, parallelVars, reconVars, cliVars,
                   moreVars>>

\* The running command exits, with status zero or not.
XProcExit ==
    /\ xproc = "running"
    /\ \E status \in {"exit0", "exit1"} : xproc' = status
    /\ UNCHANGED <<xpc, xhasfile, xfh, xfile, xfile0, xemitted, xread, xret,
                   xexc>>
    /\ UNCHANGED <<batchVars, captureVars, parallelVars, reconVars, cliVars,
                   moreVars>>

run_command ==
    \/ XOpen
    \/ XPopen
    \/ XStream
    \/ XFinish
    \/ XExcept
    \/ XProcEmit
    \/ XProcExit

\* The call (line 378), with or without an output_file, which may exist.
InitCommand ==
    /\ BatchIdle
    /\ CaptureIdle
    /\ ParallelIdle
    /\ ReconIdle
    /\ CliIdle
    /\ MoreIdle
    /\ xpc = "open"
    /\ xhasfile \in BOOLEAN
    /\ xfile0 \in IF xhasfile THEN {Missing, Present(<<LineZ>>)} ELSE {Missing}
    /\ xfile = xfile0
    /\ xfh = "none"
    /\ xproc = "none"
    /\ xemitted = <<>>
    /\ xread = 0
    /\ xret = "none"
    /\ xexc = FALSE

NextCommand == run_command

SpecCommand == InitCommand /\ [][NextCommand]_vars

(***************************************************************************)
(* Properties of the Process Runner                                        *)
(***************************************************************************)
\* C18: run_command returns true if and only if the process was launched
\* and exited with status zero, returns false on a non-zero exit, on a
\* launch failure and on a failure to open the output file, and no
\* exception reaches the caller.
C18_TrueIffExitZero ==
    xpc = "returned" =>
        /\ xret \in {"true", "false"}
        /\ xret = "true" <=> xproc = "exit0"

\* C19: with an output file, the file is closed when run_command returns on
\* every exit path, it was truncated at the start of the call (it holds
\* nothing but lines of this call, in emission order), and on a normal exit
\* it holds exactly the lines the process emitted, in emission order.
C19_FileClosedAndTeed ==
    /\ (xpc = "returned" /\ xhasfile) => xfh # "open"
    /\ xfh # "none" => /\ xfile.exists
                       /\ IsPrefix(xfile.lines, xemitted)
    /\ (xpc = "returned" /\ xhasfile /\ ~xexc) =>
           /\ xfh = "closed"
           /\ xfile.lines = xemitted

\* An error while streaming the second line, over a file that had content:
\* the file is closed and holds the first line only.
C19_Witness ==
    /\ xpc = "returned"
    /\ xexc
    /\ xfile0 = Present(<<LineZ>>)
    /\ xfh = "closed"
    /\ Len(xemitted) = 2
    /\ xfile = Present(<<xemitted[1]>>)

(***************************************************************************)
(* subshot.py: main, run_cli_mode, run_interactive_mode                    *)
(***************************************************************************)
\* The process ends with the given status.
Exit(status) ==
    /\ apc' = "exited"
    /\ exitcode' = status

\* Python's truth of an option value: None and the empty string are false.
Truthy(a) == a.given /\ a.value # <<>>

\* main (lines 502-520): the branch is chosen on the truth of the values.
Main ==
    /\ apc = "main"
    /\ IF args.install THEN
           /\ mode' = "install"
           /\ apc' = "install"
           /\ UNCHANGED exitcode
       ELSE IF args.uninstall THEN
           /\ mode' = "uninstall"
           /\ apc' = "uninstall"
           /\ UNCHANGED exitcode
       ELSE IF Truthy(args.file) /\ Truthy(args.output) THEN
           /\ mode' = "cli"
           /\ apc' = "cli_check"
           /\ UNCHANGED exitcode
       ELSE IF Truthy(args.file) \/ Truthy(args.output) THEN
           /\ mode' = "usage"
           /\ Exit(1)
       ELSE
           /\ mode' = "interactive"
           /\ apc' = "int_check"
           /\ UNCHANGED exitcode
    /\ UNCHANGED <<args, env, prompted, dircreated, captured>>
    /\ UNCHANGED <<batchVars, captureVars, parallelVars, reconVars, commandVars,
                   moreVars>>

\* install_tool (lines 101-149): needs root; the copy may fail.
Install ==
    /\ apc = "install"
    /\ IF env.root
       THEN \E status \in {0, 1} : Exit(status)
       ELSE Exit(1)
    /\ UNCHANGED <<args, env, mode, prompted, dircreated, captured>>
    /\ UNCHANGED <<batchVars, captureVars, parallelVars, reconVars, commandVars,
                   moreVars>>

\* uninstall_tool (lines 152-181): needs root; a failed removal is reported
\* and the status is still zero.
Uninstall ==
    /\ apc = "uninstall"
    /\ Exit(IF env.root THEN 0 ELSE 1)
    /\ UNCHANGED <<args, env, mode, prompted, dircreated, captured>>
    /\ UNCHANGED <<batchVars, captureVars, parallelVars, reconVars, commandVars,
                   moreVars>>

\* run_cli_mode, check_playwright() (line 356).
CliCheck ==
    /\ apc = "cli_check"
    /\ IF env.playwright
       THEN apc' = "cli_exists" /\ UNCHANGED exitcode
       ELSE Exit(1)
    /\ UNCHANGED <<args, env, mode, prompted, dircreated, captured>>
    /\ UNCHANGED <<batchVars, captureVars, parallelVars, reconVars, commandVars,
                   moreVars>>

\* run_cli_mode, os.path.exists(filepath) (lines 363-365).
CliExists ==
    /\ apc = "cli_exists"
    /\ IF env.exists
       THEN apc' = "cli_mkdir" /\ UNCHANGED exitcode
       ELSE Exit(1)
    /\ UNCHANGED <<args, env, mode, prompted, dircreated, captured>>
    /\ UNCHANGED <<batchVars, captureVars, parallelVars, reconVars, commandVars,
                   moreVars>>

\* run_cli_mode, output_dir.mkdir(parents=True, exist_ok=True) (line 368);
\* an OSError reaches the handler of lines 529-531.
CliMkdir ==
    /\ apc = "cli_mkdir"
    /\ \/ /\ dircreated' = TRUE
          /\ apc' = "cli_load"
          /\ UNCHANGED exitcode
       \/ /\ Exit(1)
          /\ UNCHANGED dircreated
    /\ UNCHANGED <<args, env, mode, prompted, captured>>
    /\ UNCHANGED <<batchVars, captureVars, parallelVars, reconVars, commandVars,
                   moreVars>>

\* run_cli_mode, load_list and the test of its length (lines 375-380);
\* load_list exits with status 1 when the file cannot be read.
CliLoad ==
    /\ apc = "cli_load"
    /\ \/ IF env.targets = 0
          THEN Exit(0)
          ELSE apc' = "cli_process" /\ UNCHANGED exitcode
       \/ Exit(1)
    /\ UNCHANGED <<args, env, mode, prompted, dircreated, captured>>
    /\ UNCHANGED <<batchVars, captureVars, parallelVars, reconVars, commandVars,
                   moreVars>>

\* run_cli_mode, process_subdomains and the summary (lines 383-387).
CliProcess ==
    /\ apc = "cli_process"
    /\ captured' = TRUE
    /\ Exit(0)
    /\ UNCHANGED <<args, env, mode, prompted, dircreated>>
    /\ UNCHANGED <<batchVars, captureVars, parallelVars, reconVars, commandVars,
                   moreVars>>

\* run_interactive_mode, check_playwright() (line 394).
IntCheck ==
    /\ apc = "int_check"
    /\ IF env.playwright
       THEN apc' = "int_target" /\ UNCHANGED exitcode
       ELSE Exit(1)
    /\ UNCHANGED <<args, env, mode, prompted, dircreated, captured>>
    /\ UNCHANGED <<batchVars, captureVars, parallelVars, reconVars, commandVars,
                   moreVars>>

\* run_interactive_mode, the prompt for the target name (lines 404-407).
IntTarget ==
    /\ apc = "int_target"
    /\ prompted' = TRUE
    /\ IF env.answers >= 1
       THEN apc' = "int_path" /\ UNCHANGED exitcode
       ELSE Exit(1)
    /\ UNCHANGED <<args, env, mode, dircreated, captured>>
    /\ UNCHANGED <<batchVars, captureVars, parallelVars, reconVars, commandVars,
                   moreVars>>

\* run_interactive_mode, the prompt for the file path and the test that
\* the file exists (lines 413-421).
IntPath ==
    /\ apc = "int_path"
    /\ IF env.answers >= 2 /\ env.exists
       THEN apc' = "int_mkdir" /\ UNCHANGED exitcode
       ELSE Exit(1)
    /\ UNCHANGED <<args, env, mode, prompted, dircreated, captured>>
    /\ UNCHANGED <<batchVars, captureVars, parallelVars, reconVars, commandVars,
                   moreVars>>

\* run_interactive_mode, output_dir.mkdir(exist_ok=True) (lines 424-425).
IntMkdir ==
    /\ apc = "int_mkdir"
    /\ \/ /\ dircreated' = TRUE
          /\ apc' = "int_load"
          /\ UNCHANGED exitcode
       \/ /\ Exit(1)
          /\ UNCHANGED dircreated
    /\ UNCHANGED <<args, env, mode, prompted, captured>>
    /\ UNCHANGED <<batchVars, captureVars, parallelVars, reconVars, commandVars,
                   moreVars>>

\* run_interactive_mode, load_list and the test of its length (lines
\* 431-437).
IntLoad ==
    /\ apc = "int_load"
    /\ \/ IF env.targets = 0
          THEN Exit(0)
          ELSE apc' = "int_process" /\ UNCHANGED exitcode
       \/ Exit(1)
    /\ UNCHANGED <<args, env, mode, prompted, dircreated, captured>>
    /\ UNCHANGED <<batchVars, captureVars, parallelVars, reconVars, commandVars,
                   moreVars>>

\* run_interactive_mode, process_subdomains and the summary (lines 440-447).
IntProcess ==
    /\ apc = "int_process"
    /\ captured' = TRUE
    /\ Exit(0)
    /\ UNCHANGED <<args, env, mode, prompted, dircreated>>
    /\ UNCHANGED <<batchVars, captureVars, parallelVars, reconVars, commandVars,
                   moreVars>>

\* Where an exception other than an interrupt can start in subshot: input()
\* at end of input, and the body of take_screenshot.
CliRaisesException == {"int_target", "int_path", "cli_process", "int_process"}

\* The user interrupts subshot, or a call raises.  Inside take_screenshot
\* the exception first meets its except clauses.
CliRaise ==
    /\ apc \notin {"idle", "exited", "handler", "capture_except"}
    /\ inflight = "none"
    /\ \E e \in {"KeyboardInterrupt"} \cup
                (IF apc \in CliRaisesException THEN {"Exception"} ELSE {}) :
          /\ inflight' = e
          /\ hit' = hit \cup
               {IF e = "KeyboardInterrupt" THEN "interrupt"
                ELSE IF apc \in {"cli_process", "int_process"}
                     THEN "stage_exception"
                     ELSE "exception"}
    /\ apc' = IF apc \in {"cli_process", "int_process"}
              THEN "capture_except"
              ELSE "handler"
    /\ UNCHANGED <<args, env, mode, prompted, dircreated, captured, exitcode>>
    /\ UNCHANGED <<mainVars, textVars>>
    /\ UNCHANGED <<batchVars, captureVars, parallelVars, reconVars, commandVars>>

\* take_screenshot, `except PlaywrightTimeout` and `except Exception` (lines
\* 287-289): an Exception becomes a failed attempt, a KeyboardInterrupt
\* passes.
CliCaptureExcept ==
    /\ apc = "capture_except"
    /\ IF inflight = "Exception"
       THEN /\ inflight' = "none"
            /\ apc' = IF mode = "cli" THEN "cli_process" ELSE "int_process"
       ELSE /\ apc' = "handler"
            /\ UNCHANGED inflight
    /\ UNCHANGED <<args, env, mode, prompted, dircreated, captured, exitcode>>
    /\ UNCHANGED <<mainVars, hit, textVars>>
    /\ UNCHANGED <<batchVars, captureVars, parallelVars, reconVars, commandVars>>

\* The outermost try of subshot (lines 523-531).
CliHandler ==
    /\ apc = "handler"
    /\ Exit(IF inflight = "KeyboardInterrupt" THEN 130 ELSE 1)
    /\ inflight' = "none"
    /\ UNCHANGED <<args, env, mode, prompted, dircreated, captured>>
    /\ UNCHANGED <<mainVars, hit, textVars>>
    /\ UNCHANGED <<batchVars, captureVars, parallelVars, reconVars, commandVars>>

run_cli_mode ==
    \/ CliCheck
    \/ CliExists
    \/ CliMkdir
    \/ CliLoad
    \/ CliProcess

run_interactive_mode ==
    \/ IntCheck
    \/ IntTarget
    \/ IntPath
    \/ IntMkdir
    \/ IntLoad
    \/ IntProcess

\* What -f and -o can be on a command line: absent, given with the empty
\* string, given with a path.
ArgChoices ==
    {NoArg, [given |-> TRUE, value |-> <<>>], [given |-> TRUE, value |-> LineX]}

\* The state after parse_args (line 500), on any machine.
InitCli ==
    /\ BatchIdle
    /\ CaptureIdle
    /\ ParallelIdle
    /\ ReconIdle
    /\ CommandIdle
    /\ MoreIdle
    /\ apc = "main"
    /\ args \in [file : ArgChoices, output : ArgChoices,
                 install : BOOLEAN, uninstall : BOOLEAN]
    /\ env \in [playwright : BOOLEAN, root : BOOLEAN, exists : BOOLEAN,
                targets : 0..1, answers : 0..2]
    /\ mode = "none"
    /\ prompted = FALSE
    /\ dircreated = FALSE
    /\ captured = FALSE
    /\ exitcode = -1

NextCli ==
    \/ Main
    \/ Install
    \/ Uninstall
    \/ run_cli_mode
    \/ run_interactive_mode
    \/ CliRaise
    \/ CliCaptureExcept
    \/ CliHandler

SpecCli == InitCli /\ [][NextCli]_vars

(***************************************************************************)
(* Properties of the snapshot command line                                 *)
(***************************************************************************)
Supplied(a) == a.given

\* C20: install and uninstall aside, the mode follows from the presence of
\* -f and -o alone: both supplied, the batch run; neither, the prompts;
\* exactly one, a usage error that exits non-zero with no prompt, no
\* directory and no capture; and in the batch run a missing input file
\* exits non-zero before the output directory is created.
C20_ModeFromPresence ==
    (mode # "none" /\ ~args.install /\ ~args.uninstall) =>
        /\ (Supplied(args.file) /\ Supplied(args.output)) => mode = "cli"
        /\ (~Supplied(args.file) /\ ~Supplied(args.output)) =>
               mode = "interactive"
        /\ (Supplied(args.file) # Supplied(args.output)) =>
               /\ mode = "usage"
               /\ exitcode = 1
               /\ ~prompted /\ ~dircreated /\ ~captured
        /\ (mode = "cli" /\ env.playwright /\ ~env.exists
              /\ apc = "exited") =>
               /\ exitcode # 0
               /\ ~dircreated

(***************************************************************************)
(* fastrec.py: __main__, main and run_recon from the banner to the return. *)
(* The stages before and after the parallel stage are one step each, the   *)
(* parallel stage is run_parallel_commands above.                          *)
(***************************************************************************)
\* dependencies of check_dependencies (lines 318-329).
Dependencies ==
    {"subfinder", "httpx", "gau", "katana", "gf", "kxss", "nuclei", "grep",
     "sort", "cat"}

\* A worker thread that has been started and has not ended.
Alive(w) == wpc[w] \notin {"idle", "done"}

\* sys.exit(status), and the return of main: the interpreter shuts down.
SysExit(status) ==
    /\ fexit' = status
    /\ fpc' = "shutdown"

\* main (lines 893-898).
FMain ==
    /\ fpc = "main"
    /\ fpc' = CASE fenv.cmdline = "install" -> "install"
                [] fenv.cmdline = "uninstall" -> "uninstall"
                [] OTHER -> "check"
    /\ UNCHANGED <<fenv, fdone, fexit, exitVars, textVars>>
    /\ UNCHANGED <<batchVars, captureVars, parallelVars, reconVars,
                   commandVars, cliVars>>

\* install_tools and uninstall_tools (lines 200-309): each ends in sys.exit.
FInstall ==
    /\ fpc \in {"install", "uninstall"}
    /\ \E status \in {0, 1} : SysExit(status)
    /\ UNCHANGED <<fenv, fdone, exitVars, textVars>>
    /\ UNCHANGED <<batchVars, captureVars, parallelVars, reconVars,
                   commandVars, cliVars>>

\* A check that lets the run go on when tools are missing.
FCheckWarnsOnly ==
    /\ fpc = "check"
    /\ fdone' = fdone \cup (IF fenv.missing # {} THEN {"missing"} ELSE {})
    /\ fpc' = "input"
    /\ UNCHANGED <<fenv, fexit, exitVars, textVars>>
    /\ UNCHANGED <<batchVars, captureVars, parallelVars, reconVars,
                   commandVars, cliVars>>

\* run_recon, `if not check_dependencies(): sys.exit(1)` (lines 684-685) with
\* check_dependencies (lines 312-359): a missing dependency is blocking, a
\* missing subshot or playwright is a note.
FCheck ==
    /\ fpc = "check"
    /\ IF fenv.missing # {}
       THEN /\ fdone' = fdone \cup {"missing"}
            /\ SysExit(1)
       ELSE /\ fdone' = fdone \cup
                  (IF fenv.subshot /\ fenv.playwright THEN {} ELSE {"optional"})
            /\ fpc' = "input"
            /\ UNCHANGED fexit
    /\ UNCHANGED <<fenv, exitVars, textVars>>
    /\ UNCHANGED <<batchVars, captureVars, parallelVars, reconVars,
                   commandVars, cliVars>>

\* get_user_input (lines 594-642): three prompts, each answer checked.
FInput ==
    /\ fpc = "input"
    /\ fdone' = fdone \cup {"prompt"}
    /\ IF fenv.answers < 3
       THEN SysExit(1)
       ELSE fpc' = "mkdir" /\ UNCHANGED fexit
    /\ UNCHANGED <<fenv, exitVars, textVars>>
    /\ UNCHANGED <<batchVars, captureVars, parallelVars, reconVars,
                   commandVars, cliVars>>

\* create_target_directory (lines 645-666).
FCreateDir ==
    /\ fpc = "mkdir"
    /\ IF fenv.direxists
       THEN IF fenv.overwrite
            THEN fpc' = "copy" /\ UNCHANGED <<fexit, fdone>>
            ELSE SysExit(0) /\ UNCHANGED fdone
       ELSE /\ fdone' = fdone \cup {"dir"}
            /\ fpc' = "copy"
            /\ UNCHANGED fexit
    /\ UNCHANGED <<fenv, exitVars, textVars>>
    /\ UNCHANGED <<batchVars, captureVars, parallelVars, reconVars,
                   commandVars, cliVars>>

\* run_recon, the copy of the wildcard list in mode 2 (lines 694-697).
FCopy ==
    /\ fpc = "copy"
    /\ fdone' = fdone \cup (IF fenv.mode = 2 THEN {"copy"} ELSE {})
    /\ fpc' = "stage_a"
    /\ UNCHANGED <<fenv, fexit, exitVars, textVars>>
    /\ UNCHANGED <<batchVars, captureVars, parallelVars, reconVars,
                   commandVars, cliVars>>

\* run_recon, stages 1 and 2 (lines 699-729).
FStageA ==
    /\ fpc = "stage_a"
    /\ fdone' = fdone \cup {"stage"}
    /\ fpc' = "parallel_call"
    /\ UNCHANGED <<fenv, fexit, exitVars, textVars>>
    /\ UNCHANGED <<batchVars, captureVars, parallelVars, reconVars,
                   commandVars, cliVars>>

\* run_recon, the call of run_parallel_commands (lines 737-743).
FParallelCall ==
    /\ fpc = "parallel_call"
    /\ mpc' = "start1"
    /\ dur' = <<1, 1>>
    /\ fpc' = "parallel"
    /\ UNCHANGED <<wpc, proc, left, emitted, pipe, results, out, clock,
                   overlap>>
    /\ UNCHANGED <<fenv, fdone, fexit, exitVars, textVars>>
    /\ UNCHANGED <<batchVars, captureVars, reconVars, commandVars, cliVars>>

\* run_parallel_commands has returned to run_recon.
FParallelRet ==
    /\ fpc = "parallel"
    /\ mpc = "returned"
    /\ fpc' = "stage_b"
    /\ UNCHANGED <<fenv, fdone, fexit, exitVars, textVars>>
    /\ UNCHANGED <<batchVars, captureVars, parallelVars, reconVars,
                   commandVars, cliVars>>

\* run_recon, stages 4 to 7, the summary and the notification (lines
\* 745-884), then main returns.
FStageB ==
    /\ fpc = "stage_b"
    /\ SysExit(0)
    /\ UNCHANGED <<fenv, fdone, exitVars, textVars>>
    /\ UNCHANGED <<batchVars, captureVars, parallelVars, reconVars,
                   commandVars, cliVars>>

\* Where an exception other than an interrupt can start: input() at end of
\* input, os.makedirs, shutil.copy, and the body of a runner.
RaisesException == {"input", "mkdir", "copy", "stage_a", "stage_b"}

\* The main thread is running Python code of the tool.
MainRunning ==
    fpc \in {"main", "install", "uninstall", "check", "input", "mkdir", "copy",
             "stage_a", "parallel_call", "parallel", "stage_b"}

\* The user interrupts (KeyboardInterrupt is raised in the main thread), or
\* a call raises.  Inside a runner the exception first meets the runner's
\* except clause; in run_parallel_commands the main thread leaves the call
\* and the worker threads go on.
FRaise ==
    /\ MainRunning
    /\ inflight = "none"
    /\ \E e \in {"KeyboardInterrupt"} \cup
                (IF fpc \in RaisesException THEN {"Exception"} ELSE {}) :
          /\ inflight' = e
          /\ hit' = hit \cup
               {IF e = "KeyboardInterrupt" THEN "interrupt"
                ELSE IF fpc \in {"stage_a", "stage_b"} THEN "stage_exception"
                ELSE "exception"}
    /\ fpc' = CASE fpc = "stage_a" -> "except_a"
                [] fpc = "stage_b" -> "except_b"
                [] OTHER -> "handler"
    /\ mpc' = IF fpc = "parallel" THEN "interrupted" ELSE mpc
    /\ UNCHANGED <<wpc, proc, dur, left, emitted, pipe, results, out, clock,
                   overlap>>
    /\ UNCHANGED <<fenv, fdone, fexit, textVars>>
    /\ UNCHANGED <<batchVars, captureVars, reconVars, commandVars, cliVars>>

\* A runner whose except clause catches everything.
FRunnerExceptCatchesAll ==
    /\ fpc \in {"except_a", "except_b"}
    /\ inflight' = "none"
    /\ fpc' = IF fpc = "except_a" THEN "stage_a" ELSE "stage_b"
    /\ UNCHANGED <<fenv, fdone, fexit, hit, textVars>>
    /\ UNCHANGED <<batchVars, captureVars, parallelVars, reconVars,
                   commandVars, cliVars>>

\* `except Exception` of a runner (lines 416, 466, 589): an Exception is
\* reported and the runner returns False; a KeyboardInterrupt passes.
FRunnerExcept ==
    /\ fpc \in {"except_a", "except_b"}
    /\ IF inflight = "Exception"
       THEN /\ inflight' = "none"
            /\ fpc' = IF fpc = "except_a" THEN "stage_a" ELSE "stage_b"
       ELSE /\ fpc' = "handler"
            /\ UNCHANGED inflight
    /\ UNCHANGED <<fenv, fdone, fexit, hit, textVars>>
    /\ UNCHANGED <<batchVars, captureVars, parallelVars, reconVars,
                   commandVars, cliVars>>

\* The outermost try (lines 900-908).
FHandler ==
    /\ fpc = "handler"
    /\ IF inflight = "KeyboardInterrupt"
       THEN /\ fdone' = fdone \cup {"notice"}
            /\ SysExit(130)
       ELSE /\ fdone' = fdone \cup {"fatal"}
            /\ SysExit(1)
    /\ inflight' = "none"
    /\ UNCHANGED <<fenv, hit, textVars>>
    /\ UNCHANGED <<batchVars, captureVars, parallelVars, reconVars,
                   commandVars, cliVars>>

\* The interpreter ends the process once every thread that is not a daemon
\* has ended (threading.Thread of lines 514-515 sets no daemon flag).
FShutdown ==
    /\ fpc = "shutdown"
    /\ \A w \in Workers : ~Alive(w)
    /\ fpc' = "exited"
    /\ UNCHANGED <<fenv, fdone, fexit, exitVars, textVars>>
    /\ UNCHANGED <<batchVars, captureVars, parallelVars, reconVars,
                   commandVars, cliVars>>

fastrec_main ==
    \/ FMain
    \/ FInstall
    \/ FCheck
    \/ FInput
    \/ FCreateDir
    \/ FCopy
    \/ FStageA
    \/ FParallelCall
    \/ FParallelRet
    \/ FStageB
    \/ FRaise
    \/ FRunnerExcept
    \/ FHandler
    \/ FShutdown

\* The tools that may be missing on a machine, in three samples.
MissingChoices == {{}, {"nuclei"}, {"gau", "sort"}}

\* The process after parse_args (line 891), on any machine and with any
\* user.
InitMain ==
    /\ BatchIdle
    /\ CaptureIdle
    /\ ParallelIdle
    /\ ReconIdle
    /\ CommandIdle
    /\ CliIdle
    /\ TextIdle
    /\ ExitIdle
    /\ fpc = "main"
    /\ fenv \in [cmdline : {"run", "install", "uninstall"},
                 missing : MissingChoices, subshot : BOOLEAN,
                 playwright : BOOLEAN, answers : 0..3, mode : {1, 2},
                 direxists : BOOLEAN, overwrite : BOOLEAN]
    /\ fdone = {}
    /\ fexit = -1

NextMain == fastrec_main \/ run_parallel_commands

SpecMain == InitMain /\ [][NextMain]_vars

\* Either tool is run from its command line.
InitTools == InitMain \/ InitCli

NextTools == NextMain \/ NextCli

SpecTools == InitTools /\ [][NextTools]_vars

(***************************************************************************)
(* Properties of the start and the end of a run                            *)
(***************************************************************************)
\* C21: when a required tool is absent, a run of the workflow ends with a
\* non-zero status and has not prompted, created the target directory or
\* started a stage; when only subshot or playwright is absent, the run is
\* not ended by the check (it goes on to the prompts).
C21_MissingToolAbortsFirst ==
    fenv.cmdline = "run" =>
        /\ fenv.missing # {} =>
               /\ fdone \cap {"prompt", "dir", "copy", "stage"} = {}
               /\ mpc = "idle"
               /\ fpc \in {"shutdown", "exited"} => fexit # 0
               /\ (fpc = "exited" /\ hit = {}) => fexit = 1
        /\ (fenv.missing = {} /\ hit = {} /\ fpc \in {"shutdown", "exited"}) =>
               "prompt" \in fdone

\* A machine without nuclei: the run has ended with status 1 after the
\* blocking list.
C21_Witness ==
    /\ fenv.cmdline = "run"
    /\ fenv.missing = {"nuclei"}
    /\ fpc = "exited"
    /\ fdone = {"missing"}
    /\ fexit = 1

\* C22: in both tools, a run the user interrupted ends with status 130 and
\* only such a run does; a run ended by an exception that no function
\* handled ends with status 1; neither ends with status 0.
C22_InterruptAndFailureStatus ==
    /\ fpc = "exited" =>
           /\ "interrupt" \in hit <=> fexit = 130
           /\ ("exception" \in hit /\ "interrupt" \notin hit) => fexit = 1
    /\ apc = "exited" =>
           /\ "interrupt" \in hit <=> exitcode = 130
           /\ ("exception" \in hit /\ "interrupt" \notin hit) => exitcode = 1

\* An interrupt after a runner had caught an exception of its command.
C22_Witness ==
    /\ fpc = "exited"
    /\ hit = {"stage_exception", "interrupt"}
    /\ "notice" \in fdone
    /\ fexit = 130

\* C30: after an interrupt the process exits without waiting for the worker
\* threads of the parallel stage: once the notice is printed and
\* sys.exit(130) is called, no live worker thread holds the process.
C30_ExitDoesNotWait ==
    ~ /\ fpc = "shutdown"
      /\ fexit = 130
      /\ \E w \in Workers : Alive(w)

(***************************************************************************)
(* subshot.py: sanitize_filename and normalize_url on their own.  The      *)
(* input is any string made of up to MaxPieces pieces; each function is    *)
(* applied once and once more to its own result.                           *)
(***************************************************************************)
Pieces ==
    { HttpsPrefix, HttpPrefix, <<"h", "t">>, <<"t", "p", ":", "/", "/">>,
      <<"h", "t", "t", "p">>, <<":", "/", "/">>, <<"a">>, <<".">>, <<"-">>,
      <<"/">>, <<"\\">>, <<" ">>, <<"\t">>, <<"*">> }

RECURSIVE Joined(_)
Joined(n) ==
    IF n = 0 THEN {<<>>}
    ELSE LET shorter == Joined(n - 1)
         IN  shorter \cup { t \o q : t \in shorter, q \in Pieces }

NoResult == [fn |-> "none", once |-> <<>>, twice |-> <<>>]

\* sanitize_filename(tin), and sanitize_filename of that.
ApplySanitize ==
    /\ tout = NoResult
    /\ tout' = [fn |-> "sanitize_filename",
                once |-> sanitize_filename(tin),
                twice |-> sanitize_filename(sanitize_filename(tin))]
    /\ UNCHANGED <<tin, mainVars, exitVars>>
    /\ UNCHANGED <<batchVars, captureVars, parallelVars, reconVars,
                   commandVars, cliVars>>

\* normalize_url(tin), and normalize_url of that.
ApplyNormalize ==
    /\ tout = NoResult
    /\ tout' = [fn |-> "normalize_url",
                once |-> normalize_url(tin),
                twice |-> normalize_url(normalize_url(tin))]
    /\ UNCHANGED <<tin, mainVars, exitVars>>
    /\ UNCHANGED <<batchVars, captureVars, parallelVars, reconVars,
                   commandVars, cliVars>>

InitText ==
    /\ BatchIdle
    /\ CaptureIdle
    /\ ParallelIdle
    /\ ReconIdle
    /\ CommandIdle
    /\ CliIdle
    /\ MainIdle
    /\ ExitIdle
    /\ tin \in Joined(MaxPieces)
    /\ tout = NoResult

NextText == ApplySanitize \/ ApplyNormalize

SpecText == InitText /\ [][NextText]_vars

(***************************************************************************)
(* Properties of the text functions                                        *)
(***************************************************************************)
\* C23: sanitize_filename is idempotent: applied to its own result it
\* returns that result, also when removing a scheme prefix exposes another.
C23_SanitizeIdempotent ==
    tout.fn = "sanitize_filename" => tout.twice = tout.once

\* "ht" "http://" "tp://": removing the prefix leaves "http://".
C23_Witness ==
    /\ tin = <<"h", "t">> \o HttpPrefix \o <<"t", "p", ":", "/", "/">>
    /\ tout.fn = "sanitize_filename"
    /\ tout.once = <<"h", "t", "t", "p">>

Illegal ==
    {"/", "\\", "<", ">", ":", "\"", "|", "?", "*", " ", "\t", "\n", "\r", "\f"}

\* C24: the result of sanitize_filename holds no path separator, no other
\* character illegal in filenames and no whitespace, and neither begins nor
\* ends with "." or "-".
C24_SanitizeSafe ==
    tout.fn = "sanitize_filename" =>
        LET r == tout.once
        IN  /\ \A k \in 1..Len(r) : r[k] \notin Illegal
            /\ r # <<>> => /\ r[1] \notin {".", "-"}
                           /\ r[Len(r)] \notin {".", "-"}

\* "/" "\" "a": both separators are replaced and the leading ones trimmed.
C24_Witness ==
    /\ tin = <<"/", "a", "\\">>
    /\ tout.fn = "sanitize_filename"
    /\ tout.once = <<"a">>

\* C25: normalize_url returns the trimmed input when that starts with
\* "http://" or "https://" and "https://" followed by the trimmed input
\* otherwise, so the result starts with a scheme, and it is idempotent.
C25_NormalizeUrl ==
    tout.fn = "normalize_url" =>
        LET t == Strip(tin, {" ", "\t", "\n", "\r", "\f"})
            schemed(u) == StartsWith(u, <<"h", "t", "t", "p", ":", "/", "/">>)
                          \/ StartsWith(u, <<"h", "t", "t", "p", "s", ":", "/", "/">>)
        IN  /\ tout.once = IF schemed(t) THEN t
                           ELSE <<"h", "t", "t", "p", "s", ":", "/", "/">> \o t
            /\ schemed(tout.once)
            /\ tout.twice = tout.once

\* " a": trimmed and given the scheme.
C25_Witness ==
    /\ tin = <<" ", "a">>
    /\ tout.fn = "normalize_url"
    /\ tout.once = HttpsPrefix \o <<"a">>
    /\ tout.twice = tout.once

(***************************************************************************)
(* Further properties of the Batch Snapshot Driver                         *)
(***************************************************************************)
\* C27: two targets of one batch that normalize to different URLs are never
\* given the same output file.
C27_DistinctUrlsDistinctFiles ==
    \A j, k \in 1..Len(calls) :
        calls[j].url # calls[k].url => calls[j].path # calls[k].path

\* C28: for each target i of N the line "[i/N] target ... " is printed
\* before the capture of target i starts, one outcome (OK or FAIL) is
\* printed after that capture ends and before the line of target i+1, and
\* i goes from 1 to N by one.
C28_ProgressThenOutcome ==
    pc \in {"for", "capture", "done"} =>
        /\ Len(console) = IF pc = "capture" THEN 2 * i - 1 ELSE 2 * i
        /\ \A k \in 1..Len(console) :
              LET t == (k + 1) \div 2
              IN  /\ console[k].i = t
                  /\ console[k].n = Len(subdomains)
                  /\ k % 2 = 1 => /\ console[k].kind = "progress"
                                  /\ console[k].text = subdomains[t]
                  /\ k % 2 = 0 => console[k].kind \in {"OK", "FAIL"}
        /\ tpc \notin {"idle", "returned"} =>
              /\ pc = "capture"
              /\ console[Len(console)].kind = "progress"
              /\ console[Len(console)].i = Len(calls)
        /\ pc = "done" => Len(console) = 2 * Len(subdomains)

\* The second capture of a batch of two is running: three lines so far.
C28_Witness ==
    /\ pc = "capture"
    /\ tpc = "goto"
    /\ Len(subdomains) = 2
    /\ Len(console) = 3
    /\ console[2].kind = "FAIL"
    /\ console[3].kind = "progress"
    /\ console[3].i = 2

(***************************************************************************)
(* fastrec.py: the merge stage on its own (lines 751-752), over any two    *)
(* raw lists and any earlier combined list.                                *)
(***************************************************************************)
UrlLines == {LineX, LineY, LineZ}

UrlFiles == {Missing} \cup { Present(c) : c \in SeqsUpTo(UrlLines, MaxUrls) }

\* `cat katana.txt gau.txt | sort -u > allurls.txt` has run to its end.
MergeStage ==
    /\ ~tout.ran
    /\ \E v \in WsAfter(tout.ws, "combine") : tout' = [ran |-> TRUE, ws |-> v]
    /\ UNCHANGED <<tin, mainVars, exitVars>>
    /\ UNCHANGED <<batchVars, captureVars, parallelVars, reconVars,
                   commandVars, cliVars>>

InitMerge ==
    /\ BatchIdle
    /\ CaptureIdle
    /\ ParallelIdle
    /\ ReconIdle
    /\ CommandIdle
    /\ CliIdle
    /\ MainIdle
    /\ ExitIdle
    /\ tin \in [katana : UrlFiles, gau : UrlFiles,
                old : {Missing, Present(<<>>), Present(<<LineY, LineX>>)}]
    /\ tout = [ran |-> FALSE,
               ws |-> [EmptyWs EXCEPT !["katana.txt"] = tin.katana,
                                      !["gau.txt"] = tin.gau,
                                      !["allurls.txt"] = tin.old]]

NextMerge == MergeStage

SpecMerge == InitMerge /\ [][NextMerge]_vars

LinesOf(file) == { file.lines[k] : k \in 1..Len(file.lines) }

\* C26: the merge stage writes to the combined list exactly the union of the
\* lines of the two raw lists, each line once, in lexicographic order,
\* whatever the combined list held before.
C26_MergeIsSortedUnion ==
    tout.ran =>
        LET r == tout.ws["allurls.txt"]
        IN  /\ r.exists
            /\ LinesOf(r) = LinesOf(tin.katana) \cup LinesOf(tin.gau)
            /\ \A k \in 1..(Len(r.lines) - 1) : LexLess(r.lines[k], r.lines[k + 1])
            /\ tout.ws["katana.txt"] = tin.katana
            /\ tout.ws["gau.txt"] = tin.gau

\* A = [x, y, x], B = [y, z.js] over an earlier combined list [y, x].
C26_Witness ==
    /\ tout.ran
    /\ tin.katana = Present(<<LineX, LineY, LineX>>)
    /\ tin.gau = Present(<<LineY, LineZ>>)
    /\ tin.old = Present(<<LineY, LineX>>)
    /\ tout.ws["allurls.txt"] = Present(<<LineX, LineY, LineZ>>)

(***************************************************************************)
(* Further properties of the Parallel Stage Runner                         *)
(***************************************************************************)
\* C29: when the external process of a stage exits non-zero, a warning line
\* is printed for that stage and its completion is not reported with the
\* success marker alone; here for either command of the parallel stage.
C29_NonZeroExitWarned ==
    \A w \in Workers :
        (wpc[w] = "done" /\ proc[w] = "exit1") =>
            \E k \in 1..Len(out) : out[k].w = w /\ out[k].kind = "error"

(***************************************************************************)
(* Further properties of the Snapshot Capturer                             *)
(***************************************************************************)
\* C31: every attempt of take_screenshot opens its own browser session: at
\* most one session is open, an open session is that of the running
\* attempt, none is open when the next attempt is about to open one, and
\* none is open when take_screenshot returns, with success or failure.
C31_FreshSessionPerAttempt ==
    /\ Cardinality(session) <= 1
    /\ session \subseteq {attempt}
    /\ tpc \in {"while", "launch", "except", "returned", "idle"} => session = {}
    /\ tpc \in {"goto", "screenshot", "close"} => session = {attempt}

\* The second attempt runs in its own session after the first one failed.
C31_Witness ==
    /\ tpc = "goto"
    /\ attempt = 2
    /\ failures = 1
    /\ session = {2}

\* The label the call of lines 737-743 gives each command.
LabelOf(c) == IF c = "gau" THEN "GAU" ELSE "Katana"

PrintedBy(w) == { k \in 1..Len(out) : out[k].w = w /\ out[k].kind = "line" }

\* C32: in every interleaving each output line is printed with the label of
\* the command it came from and a worker prints no more lines than its own
\* command wrote; a completion flag changes only in a step of its own
\* worker; and both flags are set when the call returns.
C32_LabelledLinesOwnFlags ==
    /\ [](/\ \A k \in 1..Len(out) :
                out[k].w \in Workers =>
                    out[k].label = LabelOf(ParallelCmd[out[k].w])
          /\ \A w \in Workers : Cardinality(PrintedBy(w)) <= emitted[w]
          /\ mpc = "returned" => results = <<TRUE, TRUE>>)
    /\ [][\A w \in Workers :
             results'[w] # results[w] =>
                 /\ results'[w]
                 /\ wpc[w] \in {"wait", "except"}
                 /\ wpc'[w] = "done"
                 /\ \A v \in Workers \ {w} : wpc'[v] = wpc[v]]_vars

\* Katana's line was printed before GAU's, and the call has returned.
C32_Witness ==
    /\ mpc = "returned"
    /\ results = <<TRUE, TRUE>>
    /\ \E j, k \in 1..Len(out) :
          /\ j < k
          /\ out[j].kind = "line" /\ out[j].w = 2 /\ out[j].label = "Katana"
          /\ out[k].kind = "line" /\ out[k].w = 1 /\ out[k].label = "GAU"

\* C33: for an entry load_list keeps (trimmed and not blank) the stem that
\* sanitize_filename returns is not empty.
C33_NonEmptyStem ==
    (/\ tout.fn = "sanitize_filename"
     /\ load_list(<<tin>>) = <<tin>>) => tout.once # <<>>

(***************************************************************************)
(* fastrec.py: run_recon in a target directory that already exists and     *)
(* holds the artifacts of an earlier complete run (create_target_directory *)
(* lines 657-662, the user answering "y").                                 *)
(***************************************************************************)
\* The workspace after the commands of cs have run one after the other,
\* subfinder finding a host.
RECURSIVE WsAfterSeq(_, _)
WsAfterSeq(w, cs) ==
    IF cs = <<>> THEN w
    ELSE LET c == Head(cs)
             v == CHOOSE u \in WsAfter(w, c) :
                     c = "subfinder" => u["alive_subs.txt"].lines # <<>>
         IN  WsAfterSeq(v, Tail(cs))

\* What one complete run leaves in a fresh workspace.
PrevWs ==
    WsAfterSeq(EmptyWs, <<"subfinder", "gau", "katana", "combine", "gf",
                          "kxss", "grepjs", "httpxjs">>)

InitRerun ==
    /\ BatchIdle
    /\ CaptureIdle
    /\ ParallelIdle
    /\ ToolIdle
    /\ rpc = "stage1"
    /\ stagelog = <<>>
    /\ cfg = [nuclei |-> RealPath, token |-> <<"t">>, chat |-> <<"c">>,
              subshot |-> TRUE, playwright |-> TRUE]
    /\ ws = PrevWs
    /\ shots = [exists |-> TRUE, names |-> {APng}]
    /\ cmd = "none"
    /\ cpc = "idle"
    /\ cproc = "none"
    /\ cret = "none"
    /\ orphans = {}
    /\ retd = {}
    /\ attempts = [c \in Commands |-> 0]
    /\ faults = 0
    /\ rlog = <<>>
    /\ summary = NoSummary
    /\ notified = 0
    /\ sent = "none"

SpecRerun == InitRerun /\ [][NextRecon]_vars

Appended == {"gau.txt", "katana.txt", "xss.txt", "kxss.txt"}

\* C34: whenever one of the two raw URL lists, the pattern-candidate list
\* or the findings list is written, it then holds exactly what its command
\* produced in this run; and a second run in the same workspace that finds
\* the same host and meets no failure leaves in these four artifacts what
\* the first run left, and counts the same in the Run Summary.
C34_RerunLeavesSameArtifacts ==
    /\ [][\A f \in Appended :
             ws'[f] # ws[f] =>
                \E c \in Commands :
                    Writes(c) = f /\ ws'[f].lines \in Outputs(c, ws)]_vars
    /\ []((/\ rpc = "finished"
           /\ faults = 0
           /\ orphans = {}
           /\ ws["alive_subs.txt"] = PrevWs["alive_subs.txt"]) =>
              \A f \in Appended :
                  /\ ws[f] = PrevWs[f]
                  /\ summary[f] = count_lines(PrevWs[f]))

====
